---- MODULE Spec2Model ----
(***************************************************************************)
(* mailsweep: the rule engine (src/src/rules.rs) and the clean pipeline    *)
(* (src/src/commands/clean.rs): paginated fetch, rule matching, batched    *)
(* mutation and the run summary; the token cache of src/src/auth.rs:       *)
(* login, ensure_valid_token, logout and the credential file.              *)
(*                                                                         *)
(* Spec      a clean run from the point where a credential was obtained    *)
(* SpecRun   a whole clean run, ensure_valid_token included, small inbox   *)
(* SpecMatch Rule::matches on its own                                      *)
(* SpecAuth  the operations of Auth one after the other, with a clock      *)
(* SpecRace  two ensure_valid_token calls running at the same time         *)
(*                                                                         *)
(* Strings are sequences of one-character strings, so that lowercasing,    *)
(* trimming and substring search are computed and not assumed.             *)
(***************************************************************************)
EXTENDS Integers, Sequences, FiniteSets, TLC

VARIABLES
    probe,              \* one call of Rule::matches: its arguments and its result
    token_file,         \* the credential file at token_cache_path
    now,                \* OffsetDateTime::now_utc(), in seconds
    issued,             \* number of access tokens the identity provider has issued
    procs,              \* the invocations of the program using Auth: position and locals
    pc,                 \* position of CleanCommand::execute
    token,              \* execute: the TokenCache returned by ensure_valid_token
    list_log,           \* the list-messages calls received by the provider
    prompt,             \* the confirmation prompt: "none" while not shown, else its outcome
    run,                \* 1 for a first run, 2 for the run that follows a completed one
    rules,              \* Rules.items, in declared order
    max_messages,       \* --max-messages: Option<usize>
    yes,                \* --yes
    inbox,              \* the provider's inbox listing (raw records, provider order)
    next_link,          \* @odata.nextLink of the last page: Option of the offset it encodes
    all_messages_json,  \* pages concatenated so far
    messages,           \* matched messages, sorted newest first
    todo,               \* the non-empty action groups still to be processed
    chunk_no,           \* process_messages_batch: index of the next chunk
    succeeded,          \* process_messages_batch: local counter
    failed,             \* process_messages_batch: local counter
    batch_results,      \* Vec<(Result<(usize, usize)>, &str)>
    batch_log,          \* the batch calls received by the provider, with its replies
    action_counts,      \* Summary: HashMap action label -> count
    failures,           \* Summary: total failure count (`failed` of execute)
    exit,               \* "running", "Ok" or "Err"
    error,              \* the message of the error execute returned, "" when none
    rules_file,         \* the rule file at get_rules_path()
    store,              \* one caller of Rules::validate, save and load: position and locals
    cli                 \* the `rules add` invocations: position, arguments and locals

vars == <<probe, token_file, now, issued, procs, pc, token, list_log, prompt, run, rules, max_messages, yes, inbox, next_link,
          all_messages_json, messages, todo, chunk_no, succeeded, failed,
          batch_results, batch_log, action_counts, failures, exit, error, rules_file, store, cli>>

rules_vars == <<rules_file, store, cli>>

auth_vars == <<token_file, now, issued, procs>>

pipeline_vars == <<pc, token, list_log, prompt, run, rules, max_messages, yes, inbox, next_link,
                   all_messages_json, messages, todo, chunk_no, succeeded,
                   failed, batch_results, batch_log, action_counts, failures,
                   exit, error>>

(***************************************************************************)
(* Bounds of the model                                                     *)
(***************************************************************************)
MaxPats == 2        \* patterns per PatternSet in a probed rule
MaxRules == 2       \* rules in the RuleSet of a clean run
MaxMsgs == 21       \* messages in the inbox of a clean run

(***************************************************************************)
(* Program constants                                                       *)
(***************************************************************************)
BATCH_SIZE == 20
DEFAULT_PER_PAGE == 50

(***************************************************************************)
(* Strings                                                                 *)
(***************************************************************************)
Alphabet == {"a", "A", " "}

lower_char(c) ==
    CASE c = "A" -> "a"
      [] c = "N" -> "n"
      [] c = "W" -> "w"
      [] c = "S" -> "s"
      [] c = "Y" -> "y"
      [] c = "Z" -> "z"
      [] OTHER -> c

to_lowercase(s) == [i \in DOMAIN s |-> lower_char(s[i])]

is_whitespace(c) == c = " "

\* str::contains: needle occurs in haystack as a contiguous substring
contains(haystack, needle) ==
    \E off \in 0..(Len(haystack) - Len(needle)) :
        SubSeq(haystack, off + 1, off + Len(needle)) = needle

RECURSIVE trim_start(_)
trim_start(s) ==
    IF s = <<>> THEN <<>>
    ELSE IF is_whitespace(Head(s)) THEN trim_start(Tail(s)) ELSE s

RECURSIVE trim_end(_)
trim_end(s) ==
    IF s = <<>> THEN <<>>
    ELSE IF is_whitespace(s[Len(s)]) THEN trim_end(SubSeq(s, 1, Len(s) - 1)) ELSE s

trim(s) == trim_end(trim_start(s))

SeqsUpTo(S, n) == UNION {[1..k -> S] : k \in 0..n}

(***************************************************************************)
(* rules.rs: Rule, PatternSet, RuleAction                                  *)
(***************************************************************************)
RuleAction == {"Archive", "Delete", "MarkRead"}

Rule(name, sender_contains, subject_contains, action) ==
    [name |-> name, sender_contains |-> sender_contains,
     subject_contains |-> subject_contains, action |-> action]

\* PatternSet::is_empty
is_empty(ps) == ps = <<>> \/ \A i \in DOMAIN ps : trim(ps[i]) = <<>>

\* PatternSet::to_vec
to_vec(ps) == ps

\* `for pattern in &patterns { if field.to_lowercase().contains(&pattern.to_lowercase()) ... }`
RECURSIVE any_pattern(_, _)
any_pattern(field, patterns) ==
    IF patterns = <<>> THEN FALSE
    ELSE IF contains(to_lowercase(field), to_lowercase(Head(patterns))) THEN TRUE
    ELSE any_pattern(field, Tail(patterns))

matches_EitherDimension(rule, sender, subject) ==
    LET sender_patterns == to_vec(rule.sender_contains)
        subject_patterns == to_vec(rule.subject_contains)
    IN  any_pattern(sender, sender_patterns) \/ any_pattern(subject, subject_patterns)

matches_WrongField(rule, sender, subject) ==
    LET sender_patterns == to_vec(rule.sender_contains)
        subject_patterns == to_vec(rule.subject_contains)
    IN  IF sender_patterns = <<>> /\ subject_patterns = <<>> THEN FALSE
        ELSE IF sender_patterns # <<>> /\ subject_patterns # <<>> THEN
            any_pattern(sender, sender_patterns) /\ any_pattern(subject, subject_patterns)
        ELSE IF sender_patterns # <<>> THEN any_pattern(subject, sender_patterns)
        ELSE IF subject_patterns # <<>> THEN any_pattern(sender, subject_patterns)
        ELSE FALSE

\* Rule::matches
matches(rule, sender, subject) ==
    LET sender_patterns == to_vec(rule.sender_contains)
        subject_patterns == to_vec(rule.subject_contains)
    IN  IF sender_patterns = <<>> /\ subject_patterns = <<>> THEN FALSE
        ELSE IF sender_patterns # <<>> /\ subject_patterns # <<>> THEN
            LET sender_matched == any_pattern(sender, sender_patterns)
                subject_matched == any_pattern(subject, subject_patterns)
            IN  sender_matched /\ subject_matched
        ELSE IF sender_patterns # <<>> THEN any_pattern(sender, sender_patterns)
        ELSE IF subject_patterns # <<>> THEN any_pattern(subject, subject_patterns)
        ELSE FALSE

(***************************************************************************)
(* Probing Rule::matches on every rule and message within the bounds       *)
(***************************************************************************)
\* patterns: empty, blank, upper case, and a two-character lower case one
ProbePatterns == {<<>>, <<" ">>, <<"A">>, <<"a", " ">>}
ProbePatternSets == SeqsUpTo(ProbePatterns, MaxPats)
\* senders and subjects: every string of at most two characters
ProbeFields == {<<>>} \cup {<<c>> : c \in Alphabet} \cup {<<c, d>> : c, d \in Alphabet}

ProbeIdle == [pc |-> "idle"]

InitProbe ==
    \E sp \in ProbePatternSets, jp \in ProbePatternSets,
       sender \in ProbeFields, subject \in ProbeFields :
        probe = [pc |-> "call",
                 rule |-> Rule(<<"r">>, sp, jp, "Archive"),
                 sender |-> sender, subject |-> subject, result |-> FALSE]

CallMatches ==
    /\ probe.pc = "call"
    /\ probe' = [probe EXCEPT !.pc = "returned",
                              !.result = matches(probe.rule, probe.sender, probe.subject)]
    /\ UNCHANGED <<rules_vars, auth_vars, pipeline_vars>>

(***************************************************************************)
(* Option<T>                                                               *)
(***************************************************************************)
None == [some |-> FALSE, v |-> <<>>]
Some(x) == [some |-> TRUE, v |-> x]
unwrap_or(opt, default) == IF opt.some THEN opt.v ELSE default

Min(a, b) == IF a < b THEN a ELSE b

(***************************************************************************)
(* The rules and the inbox contents a clean run is started with            *)
(***************************************************************************)
PatNw == <<"n", "w">>
PatCo == <<"c", "o">>
PatHi == <<"h", "i">>
PatSale == <<"s", "A", "l", "e">>

RulePool ==
    { Rule(<<"A">>, <<PatNw>>, <<>>, "Archive"),
      Rule(<<"D">>, <<>>, <<PatSale, PatHi>>, "Delete"),
      Rule(<<"M">>, <<PatCo, PatNw>>, <<PatHi>>, "MarkRead"),
      Rule(<<"E">>, <<>>, <<>>, "Archive") }

\* ordered rule sets of pairwise different rules
RuleSets == {items \in SeqsUpTo(RulePool, MaxRules) :
                \A i, j \in DOMAIN items : i # j => items[i] # items[j]}

\* raw records of the list-messages response (without the id)
MessageKinds ==
    { [address |-> Some(<<"x", "@", "N", "W">>), name |-> None,
       subject |-> Some(<<"h", "i">>), receivedDateTime |-> Some(2)],
      [address |-> Some(<<"y", "@", "c", "o">>), name |-> None,
       subject |-> None, receivedDateTime |-> Some(1)],
      [address |-> Some(<<"y", "@", "c", "o">>), name |-> Some(<<"Y", " ", "Z">>),
       subject |-> Some(<<"S", "a", "l", "e">>), receivedDateTime |-> None] }

InboxSizes == {0, 1, BATCH_SIZE, MaxMsgs}

\* the provider numbers the messages: ids are unique
MakeInbox(n, motif) ==
    [i \in 1..n |->
        LET kind == motif[((i - 1) % Len(motif)) + 1]
        IN  [id |-> i, address |-> kind.address, name |-> kind.name,
             subject |-> kind.subject, receivedDateTime |-> kind.receivedDateTime]]

\* the listing alternates two kinds of message (possibly the same kind)
Inboxes == {MakeInbox(n, <<a, b>>) : n \in InboxSizes, a \in MessageKinds, b \in MessageKinds}

MaxMessagesArgs == {None, Some(MaxMsgs \div 2)}

(***************************************************************************)
(* clean.rs: parsing a raw record into a Message (lines 99-128)            *)
(***************************************************************************)
NoSubject == <<"(", "N", "o", " ", "s", "u", "b", "j", "e", "c", "t", ")">>
Unknown == <<"u", "n", "k", "n", "o", "w", "n">>

\* Utc::now(): later than every receivedDateTime of the listing
UtcNow == 3

format_sender(sender_name, sender_email) ==
    IF sender_name # sender_email
    THEN sender_name \o <<" ", "<">> \o sender_email \o <<">">>
    ELSE sender_email

parse_message(msg_json) ==
    LET sender_email == unwrap_or(msg_json.address, Unknown)
        sender_name == unwrap_or(msg_json.name, sender_email)
    IN  [id |-> msg_json.id,
         subject |-> unwrap_or(msg_json.subject, NoSubject),
         sender |-> format_sender(sender_name, sender_email),
         received_date |-> unwrap_or(msg_json.receivedDateTime, UtcNow),
         matched_rule |-> None,
         action |-> None]

(***************************************************************************)
(* clean.rs: the rule check inlined in execute (lines 130-190)             *)
(***************************************************************************)
rule_matched_EmptyMatches(rule, message) ==
    LET sender_patterns == to_vec(rule.sender_contains)
        subject_patterns == to_vec(rule.subject_contains)
    IN  IF sender_patterns = <<>> /\ subject_patterns = <<>> THEN TRUE
        ELSE IF sender_patterns # <<>> /\ subject_patterns # <<>> THEN
            LET sender_matched == any_pattern(message.sender, sender_patterns)
                subject_matched == any_pattern(message.subject, subject_patterns)
            IN  sender_matched /\ subject_matched
        ELSE IF sender_patterns # <<>> THEN any_pattern(message.sender, sender_patterns)
        ELSE IF subject_patterns # <<>> THEN any_pattern(message.subject, subject_patterns)
        ELSE FALSE

\* the value of rule_matched when the body of the rule loop ends (lines 131-181)
rule_matched(rule, message) ==
    LET sender_patterns == to_vec(rule.sender_contains)
        subject_patterns == to_vec(rule.subject_contains)
    IN  IF sender_patterns = <<>> /\ subject_patterns = <<>> THEN FALSE
        ELSE IF sender_patterns # <<>> /\ subject_patterns # <<>> THEN
            LET sender_matched == any_pattern(message.sender, sender_patterns)
                subject_matched == any_pattern(message.subject, subject_patterns)
            IN  sender_matched /\ subject_matched
        ELSE IF sender_patterns # <<>> THEN any_pattern(message.sender, sender_patterns)
        ELSE IF subject_patterns # <<>> THEN any_pattern(message.subject, subject_patterns)
        ELSE FALSE

\* the loop without its `break`: the last matching rule wins
RECURSIVE check_each_rule_NoBreak(_, _)
check_each_rule_NoBreak(items, message) ==
    IF items = <<>> THEN message
    ELSE LET rule == Head(items)
             m == IF rule_matched(rule, message)
                  THEN [message EXCEPT !.matched_rule = Some(rule.name),
                                       !.action = Some(rule.action)]
                  ELSE message
         IN  check_each_rule_NoBreak(Tail(items), m)

\* `for rule in &rules.items { ... if rule_matched { ...; break } }`
RECURSIVE check_each_rule(_, _)
check_each_rule(items, message) ==
    IF items = <<>> THEN message
    ELSE LET rule == Head(items)
         IN  IF rule_matched(rule, message)
             THEN [message EXCEPT !.matched_rule = Some(rule.name),
                                  !.action = Some(rule.action)]
             ELSE check_each_rule(Tail(items), message)

(***************************************************************************)
(* clean.rs: the test helper matches_rule (lines 594-639)                  *)
(***************************************************************************)
matches_rule_SenderSuffices(rule, sender, subject) ==
    LET sender_patterns == to_vec(rule.sender_contains)
        subject_patterns == to_vec(rule.subject_contains)
    IN  IF sender_patterns = <<>> /\ subject_patterns = <<>> THEN FALSE
        ELSE IF sender_patterns # <<>> /\ subject_patterns # <<>> THEN
            any_pattern(sender, sender_patterns)
        ELSE IF sender_patterns # <<>> THEN any_pattern(sender, sender_patterns)
        ELSE IF subject_patterns # <<>> THEN any_pattern(subject, subject_patterns)
        ELSE FALSE

\* tests::matches_rule
matches_rule(rule, sender, subject) ==
    LET sender_patterns == to_vec(rule.sender_contains)
        subject_patterns == to_vec(rule.subject_contains)
    IN  IF sender_patterns = <<>> /\ subject_patterns = <<>> THEN FALSE
        ELSE IF sender_patterns # <<>> /\ subject_patterns # <<>> THEN
            LET sender_matched == any_pattern(sender, sender_patterns)
                subject_matched == any_pattern(subject, subject_patterns)
            IN  sender_matched /\ subject_matched
        ELSE IF sender_patterns # <<>> THEN any_pattern(sender, sender_patterns)
        ELSE IF subject_patterns # <<>> THEN any_pattern(subject, subject_patterns)
        ELSE FALSE

\* lines 97-196: parse, check the rules, keep the messages that matched
find_matches(items, json) ==
    LET evaluated == [i \in DOMAIN json |-> check_each_rule(items, parse_message(json[i]))]
    IN  SelectSeq(evaluated, LAMBDA m : m.matched_rule.some)

MaxDate(ms) == CHOOSE d \in {ms[i].received_date : i \in DOMAIN ms} :
                   \A i \in DOMAIN ms : ms[i].received_date <= d

\* messages.sort_by(|a, b| b.received_date.cmp(&a.received_date)): stable, newest first
RECURSIVE sort_by_received(_)
sort_by_received(ms) ==
    IF ms = <<>> THEN <<>>
    ELSE LET d == MaxDate(ms)
         IN  SelectSeq(ms, LAMBDA m : m.received_date = d)
             \o sort_by_received(SelectSeq(ms, LAMBDA m : m.received_date # d))

(***************************************************************************)
(* clean.rs: process_messages_batch (lines 493-587)                        *)
(***************************************************************************)
BatchOperation == <<"Archive", "Delete", "MarkRead">>

\* the label execute pushes with the result of each group (lines 364, 376, 388)
operation_label(operation) ==
    CASE operation = "Archive" -> "archive"
      [] operation = "Delete" -> "delete"
      [] operation = "MarkRead" -> "mark read"

chunks_Oversized(s, size) ==
    [k \in 1..((Len(s) + size) \div (size + 1)) |->
        SubSeq(s, (k - 1) * (size + 1) + 1, Min(k * (size + 1), Len(s)))]

\* slice::chunks
chunks(s, size) ==
    [k \in 1..((Len(s) + size - 1) \div size) |->
        SubSeq(s, (k - 1) * size + 1, Min(k * size, Len(s)))]

batch_request_DeleteForMarkRead(i, message, operation) ==
    IF operation = "Archive"
    THEN [id |-> i + 1, method |-> "POST",
          url |-> [message_id |-> message.id, path |-> "/move"],
          body |-> "destinationId: archive"]
    ELSE [id |-> i + 1, method |-> "DELETE",
          url |-> [message_id |-> message.id, path |-> ""],
          body |-> "none"]

\* one sub-request (lines 509-546); i is the 0-based index in the chunk
batch_request(i, message, operation) ==
    CASE operation = "Archive" ->
            [id |-> i + 1, method |-> "POST",
             url |-> [message_id |-> message.id, path |-> "/move"],
             body |-> "destinationId: archive"]
      [] operation = "Delete" ->
            [id |-> i + 1, method |-> "DELETE",
             url |-> [message_id |-> message.id, path |-> ""],
             body |-> "none"]
      [] operation = "MarkRead" ->
            [id |-> i + 1, method |-> "PATCH",
             url |-> [message_id |-> message.id, path |-> ""],
             body |-> "isRead: true"]

batch_requests(chunk, operation) ==
    [i \in 1..Len(chunk) |-> batch_request(i - 1, chunk[i], operation)]

is_2xx_Includes300(status) == LET st == unwrap_or(status, 500) IN 200 <= st /\ st <= 300

\* (200..300).contains(&status), with status = as_u64().unwrap_or(500)
is_2xx(status) == LET st == unwrap_or(status, 500) IN 200 <= st /\ st < 300

count_succeeded(responses) == Cardinality({i \in DOMAIN responses : is_2xx(responses[i])})
count_failed(responses) == Cardinality({i \in DOMAIN responses : ~is_2xx(responses[i])})

(***************************************************************************)
(* clean.rs: grouping by action (lines 339-350)                            *)
(***************************************************************************)
group_of(ms, operation) == SelectSeq(ms, LAMBDA m : m.action.v = operation)

nonempty_groups_DeleteFirst(ms) ==
    SelectSeq(<<"Delete", "Archive", "MarkRead">>, LAMBDA op : group_of(ms, op) # <<>>)

\* lines 352-389: the groups execute sends, in the order it sends them
nonempty_groups(ms) ==
    SelectSeq(BatchOperation, LAMBDA op : group_of(ms, op) # <<>>)

(***************************************************************************)
(* The provider                                                            *)
(***************************************************************************)
per_page == unwrap_or(max_messages, DEFAULT_PER_PAGE)

\* the page of the listing that starts after `offset`, and its continuation
provider_page(offset) ==
    [value |-> SubSeq(inbox, offset + 1, Min(offset + per_page, Len(inbox))),
     nextLink |-> IF offset + per_page < Len(inbox) THEN Some(offset + per_page) ELSE None]

\* the status of each sub-response: one sub-response per sub-request; the
\* first `k` carry `status`, the others 200
SubStatuses == {Some(299), Some(300), Some(404), None}

provider_responses(n, k, status) ==
    [i \in 1..n |-> IF i <= k THEN status ELSE Some(200)]

\* the bodies of a successful batch reply to `n` sub-requests: the first
\* sub-response carries any of the statuses, or every sub-response lacks one
ResponseProfiles(n) ==
    {provider_responses(n, 1, status) : status \in SubStatuses}
        \cup {provider_responses(n, n, None)}

(***************************************************************************)
(* TokenCache and the credential file (auth.rs)                            *)
(***************************************************************************)
\* the number of access tokens the identity provider issues in one behaviour
MaxIssued == 3

\* auth.rs:43, the lifetime assumed when the token response declares none
DEFAULT_EXPIRES_IN == 3600

Procs == {1, 2}

TokenCache(access, refresh, expires) ==
    [access_token |-> access, refresh_token |-> refresh, expires_at |-> expires]

NoToken == TokenCache(0, 0, 0)

\* the file at token_cache_path: missing, created but not yet written, or
\* holding the YAML of one TokenCache
Absent == [state |-> "absent", v |-> NoToken]
Empty == [state |-> "empty", v |-> NoToken]
Full(token_cache) == [state |-> "full", v |-> token_cache]

exists(file) == file.state # "absent"

\* Result<T>: Ok(v) or Err(message)
AuthOk(x) == [ok |-> TRUE, err |-> "", v |-> x]
AuthErr(message) == [ok |-> FALSE, err |-> message, v |-> NoToken]

is_expired_StrictlyAfter(token_cache, t) == t > token_cache.expires_at

\* TokenCache::is_expired, `t` being the reading of OffsetDateTime::now_utc()
is_expired(token_cache, t) == t >= token_cache.expires_at

\* the token responses of the identity provider that carry access token `n`
ExpiresInChoices == {None, Some(1)}

TokenResponses(n) ==
    {[access_token |-> n, refresh_token |-> r, expires_in |-> x] :
        r \in {None, Some(n)}, x \in ExpiresInChoices}

Panicked == [panic |-> TRUE, v |-> NoToken]
Returned(x) == [panic |-> FALSE, v |-> x]

from_token_response_AlwaysDefault(response, t) ==
    IF ~response.refresh_token.some
    THEN Panicked
    ELSE Returned(TokenCache(response.access_token, response.refresh_token.v,
                             t + DEFAULT_EXPIRES_IN))

\* TokenCache::from_token_response: `unwrap()` of a missing refresh token panics
from_token_response(response, t) ==
    LET expires_in == unwrap_or(response.expires_in, DEFAULT_EXPIRES_IN)
    IN  IF ~response.refresh_token.some
        THEN Panicked
        ELSE Returned(TokenCache(response.access_token, response.refresh_token.v,
                                 t + expires_in))

\* Auth::load_token_cache: read_to_string, then serde_yaml::from_str
load_token_cache(file) ==
    IF file.state = "full" THEN AuthOk(file.v) ELSE AuthErr("load")

\* one invocation of the program: the operation of Auth it runs, its
\* position, its locals, the network calls it has issued and its result
Invocation(op) ==
    [op |-> op, pc |-> "idle", loaded |-> NoToken, checked_at |-> 0,
     calls |-> <<>>, response |-> None, received_at |-> 0,
     token_cache |-> NoToken, result |-> AuthErr("")]

IdleProc == Invocation("none")

CanStart(p) == procs[p].pc \in {"idle", "returned", "panicked"}

ReturnFrom(proc, result) == [proc EXCEPT !.pc = "returned", !.result = result]

begin_ensure_valid_token_AlwaysRefresh(proc, t) ==
    LET loaded == load_token_cache(token_file)
        checked == [proc EXCEPT !.loaded = loaded.v, !.checked_at = t]
    IN  IF ~loaded.ok
        THEN ReturnFrom(proc, AuthErr("Not authenticated"))
        ELSE [checked EXCEPT !.pc = "refreshing",
                             !.calls = <<"exchange_refresh_token">>]

\* ensure_valid_token up to the refresh request (lines 140-146, 153-156)
begin_ensure_valid_token(proc, t) ==
    LET loaded == load_token_cache(token_file)
        checked == [proc EXCEPT !.loaded = loaded.v, !.checked_at = t]
    IN  IF ~loaded.ok
        THEN ReturnFrom(proc, AuthErr("Not authenticated"))
        ELSE IF is_expired(loaded.v, t)
             THEN [checked EXCEPT !.pc = "refreshing",
                                  !.calls = <<"exchange_refresh_token">>]
             ELSE ReturnFrom(checked, AuthOk(loaded.v))

EnsureLoad(p) ==
    /\ CanStart(p)
    /\ procs' = [procs EXCEPT ![p] =
                    begin_ensure_valid_token(Invocation("ensure_valid_token"), now)]
    /\ UNCHANGED <<probe, rules_vars, pipeline_vars, token_file, now, issued>>

\* the token endpoint answers with a token: from_token_response builds the
\* TokenCache that save_token_cache is about to write
ReceiveToken(p, failure) ==
    \/ /\ procs' = [procs EXCEPT ![p] = ReturnFrom(@, AuthErr(failure))]
       /\ UNCHANGED issued
    \/ /\ issued < MaxIssued
       /\ issued' = issued + 1
       /\ \E response \in TokenResponses(issued + 1) :
            LET built == from_token_response(response, now)
                got == [procs[p] EXCEPT !.response = Some(response),
                                        !.received_at = now]
            IN  procs' = [procs EXCEPT ![p] =
                            IF built.panic
                            THEN [got EXCEPT !.pc = "panicked"]
                            ELSE [got EXCEPT !.pc = "saving",
                                             !.token_cache = built.v]]

RefreshReply_ClearsOnFailure(p) ==
    /\ procs[p].pc = "refreshing"
    /\ ReceiveToken(p, "Failed to refresh token")
    /\ token_file' = IF procs'[p].pc = "returned" THEN Absent ELSE token_file
    /\ UNCHANGED <<probe, rules_vars, pipeline_vars, now>>

\* lines 143-150: the reply to exchange_refresh_token
RefreshReply(p) ==
    /\ procs[p].pc = "refreshing"
    /\ ReceiveToken(p, "Failed to refresh token")
    /\ UNCHANGED <<probe, rules_vars, pipeline_vars, token_file, now>>

\* save_token_cache, std::fs::write: the file is created or truncated ...
SaveCreate(p) ==
    /\ procs[p].pc = "saving"
    /\ token_file' = Empty
    /\ procs' = [procs EXCEPT ![p].pc = "writing"]
    /\ UNCHANGED <<probe, rules_vars, pipeline_vars, now, issued>>

after_save_KeepsOld(proc) ==
    IF proc.op = "login"
    THEN [proc EXCEPT !.pc = "userinfo", !.calls = Append(@, "get_user_info")]
    ELSE ReturnFrom(proc, AuthOk(proc.loaded))

\* what follows save_token_cache: login goes on to get_user_info (line 127),
\* ensure_valid_token returns the new TokenCache (line 153)
after_save(proc) ==
    IF proc.op = "login"
    THEN [proc EXCEPT !.pc = "userinfo", !.calls = Append(@, "get_user_info")]
    ELSE ReturnFrom(proc, AuthOk(proc.token_cache))

\* ... and then the YAML is written into it
SaveWrite(p) ==
    /\ procs[p].pc = "writing"
    /\ token_file' = Full(procs[p].token_cache)
    /\ procs' = [procs EXCEPT ![p] = after_save(@)]
    /\ UNCHANGED <<probe, rules_vars, pipeline_vars, now, issued>>

\* login, lines 89-106: the device code request is sent
LoginStart(p) ==
    /\ CanStart(p)
    /\ procs' = [procs EXCEPT ![p] =
                    [Invocation("login") EXCEPT !.pc = "device",
                                                !.calls = <<"exchange_device_code">>]]
    /\ UNCHANGED <<probe, rules_vars, pipeline_vars, token_file, now, issued>>

\* lines 102-119: the device code arrives and polling starts, or the request
\* fails
DeviceReply(p) ==
    /\ procs[p].pc = "device"
    /\ \/ procs' = [procs EXCEPT ![p] =
                      ReturnFrom(@, AuthErr("Device code request failed"))]
       \/ procs' = [procs EXCEPT ![p].pc = "polling",
                                 ![p].calls = Append(@, "exchange_device_access_token")]
    /\ UNCHANGED <<probe, rules_vars, pipeline_vars, token_file, now, issued>>

\* lines 116-123: the outcome of the device flow
PollReply(p) ==
    /\ procs[p].pc = "polling"
    /\ ReceiveToken(p, "Token exchange failed")
    /\ UNCHANGED <<probe, rules_vars, pipeline_vars, token_file, now>>

\* lines 127-135: whatever get_user_info answers, login returns Ok(())
UserInfoReply(p) ==
    /\ procs[p].pc = "userinfo"
    /\ procs' = [procs EXCEPT ![p] = ReturnFrom(@, AuthOk(NoToken))]
    /\ UNCHANGED <<probe, rules_vars, pipeline_vars, token_file, now, issued>>

logout_KeepsFile(file) == file

\* the file that logout leaves (lines 196-203)
logout(file) == IF exists(file) THEN Absent ELSE file

\* Auth::logout
Logout(p) ==
    /\ CanStart(p)
    /\ token_file' = logout(token_file)
    /\ procs' = [procs EXCEPT ![p] =
                    ReturnFrom(Invocation("logout"), AuthOk(NoToken))]
    /\ UNCHANGED <<probe, rules_vars, pipeline_vars, now, issued>>

\* time passes, up to one of the instants around the expiry of the stored
\* credential
Tick ==
    /\ token_file.state = "full"
    /\ \E t \in {token_file.v.expires_at - 1, token_file.v.expires_at,
                 token_file.v.expires_at + 1} :
            /\ t > now
            /\ now' = t
    /\ UNCHANGED <<probe, rules_vars, pipeline_vars, token_file, issued, procs>>

\* the credentials an earlier login may have left behind: at time 0 the
\* first is at its expiry instant, the second is still valid
InitialCredentials == {TokenCache(1, 1, 0), TokenCache(1, 1, 1)}

InitAuth ==
    /\ token_file \in {Absent} \cup {Full(c) : c \in InitialCredentials}
    /\ now = 0
    /\ issued = 1
    /\ procs = [p \in Procs |-> IdleProc]

\* no invocation is using Auth
AuthIdle ==
    /\ token_file = Absent
    /\ now = 0
    /\ issued = 0
    /\ procs = [p \in Procs |-> IdleProc]

\* ensure_valid_token has returned `token_cache` to invocation 1
Authenticated(token_cache) ==
    /\ token_file = Full(token_cache)
    /\ now = 0
    /\ issued = 1
    /\ procs = [p \in Procs |->
                  IF p = 1
                  THEN ReturnFrom([Invocation("ensure_valid_token")
                                      EXCEPT !.loaded = token_cache],
                                  AuthOk(token_cache))
                  ELSE IdleProc]

(***************************************************************************)
(* CleanCommand::execute                                                   *)
(***************************************************************************)
InitClean ==
    /\ pc = "start"
    /\ token = Some(TokenCache(1, 1, 1))
    /\ list_log = <<>>
    /\ prompt = "none"
    /\ run = 1
    /\ rules \in RuleSets
    /\ max_messages \in MaxMessagesArgs
    /\ yes \in BOOLEAN
    /\ inbox \in Inboxes
    /\ next_link = None
    /\ all_messages_json = <<>>
    /\ messages = <<>>
    /\ todo = <<>>
    /\ chunk_no = 1
    /\ succeeded = 0
    /\ failed = 0
    /\ batch_results = <<>>
    /\ batch_log = <<>>
    /\ action_counts = <<>>
    /\ failures = 0
    /\ exit = "running"
    /\ error = ""

bearer_OfNoToken(token_cache) == NoToken.access_token

\* `.header("Authorization", format!("Bearer {}", token))` (lines 465, 556)
\* with the &token.access_token that execute passes (lines 76, 84, 357-386)
bearer(token_cache) == token_cache.access_token

Return(result) ==
    /\ pc' = "done"
    /\ exit' = result
    /\ error' = ""

\* execute returns Err(message)
Fail(message) ==
    /\ pc' = "done"
    /\ exit' = "Err"
    /\ error' = message

\* lines 54-55: `.map_err(|_| anyhow!("You are not authenticated. Please run
\* 'mailsweep auth login' first."))` puts one message in the place of
\* whatever error ensure_valid_token returned
map_err(auth_error) == "You are not authenticated"

AfterAuth_IgnoresError ==
    /\ pc = "auth"
    /\ procs[1].pc \in {"returned", "panicked"}
    /\ IF procs[1].pc = "panicked"
       THEN /\ Return("Panic")
            /\ UNCHANGED token
       ELSE /\ token' = Some(procs[1].result.v)
            /\ pc' = "start"
            /\ UNCHANGED <<exit, error>>
    /\ UNCHANGED <<probe, rules_vars, auth_vars, prompt, run, list_log, rules, max_messages, yes, inbox, next_link,
                   all_messages_json, messages, todo, chunk_no, succeeded,
                   failed, batch_results, batch_log, action_counts, failures>>

\* lines 53-56: the outcome of ensure_valid_token; `?` returns its error
\* (replaced by map_err), a panic inside it ends the process
AfterAuth ==
    /\ pc = "auth"
    /\ procs[1].pc \in {"returned", "panicked"}
    /\ IF procs[1].pc = "panicked"
       THEN /\ Return("Panic")
            /\ UNCHANGED token
       ELSE IF procs[1].result.ok
            THEN /\ token' = Some(procs[1].result.v)
                 /\ pc' = "start"
                 /\ UNCHANGED <<exit, error>>
            ELSE /\ Fail(map_err(procs[1].result.err))
                 /\ UNCHANGED token
    /\ UNCHANGED <<probe, rules_vars, auth_vars, prompt, run, list_log, rules, max_messages, yes, inbox, next_link,
                   all_messages_json, messages, todo, chunk_no, succeeded,
                   failed, batch_results, batch_log, action_counts, failures>>

\* lines 66-69: no rules configured
NoRules ==
    /\ pc = "start"
    /\ rules = <<>>
    /\ Return("Ok")
    /\ UNCHANGED <<probe, rules_vars, auth_vars, prompt, run, token, list_log, rules, max_messages, yes, inbox, next_link,
                   all_messages_json, messages, todo, chunk_no, succeeded,
                   failed, batch_results, batch_log, action_counts, failures>>

\* the URL of the next list call: the first carries $top (lines 72-75), each
\* later one is the @odata.nextLink of the page before (lines 81-83)
list_url ==
    IF pc = "start"
    THEN [top |-> Some(per_page), link |-> None]
    ELSE [top |-> None, link |-> next_link]

extend_Overwrite(all, page) == IF page # <<>> THEN page ELSE all

\* lines 78-80: `if !messages.is_empty() { all_messages_json.extend(messages) }`
extend(all, page) == IF page # <<>> THEN all \o page ELSE all

FetchPage_BeforeRulesCheck ==
    /\ pc \in {"start", "paging"}
    /\ LET offset == IF pc = "start" THEN 0 ELSE next_link.v
           page == provider_page(offset)
       IN  /\ all_messages_json' = extend(all_messages_json, page.value)
           /\ next_link' = page.nextLink
           /\ list_log' = Append(list_log, [url |-> list_url, bearer |-> bearer(token.v), ok |-> TRUE,
                                            nextLink |-> page.nextLink])
           /\ pc' = IF page.nextLink.some THEN "paging" ELSE "evaluate"
    /\ UNCHANGED <<probe, rules_vars, auth_vars, prompt, run, token, rules, max_messages, yes, inbox, messages, todo,
                   chunk_no, succeeded, failed, batch_results, batch_log,
                   action_counts, failures, exit, error>>

after_page_StopsAfterFirst(link) == "evaluate"

\* line 83: `while let Some(link) = next_link` goes round again or falls through
after_page(link) == IF link.some THEN "paging" ELSE "evaluate"

\* lines 76-89 with fetch_messages_page (452-483): one list call that succeeds
FetchPage ==
    /\ \/ pc = "start" /\ rules # <<>>
       \/ pc = "paging"
    /\ LET offset == IF pc = "start" THEN 0 ELSE next_link.v
           page == provider_page(offset)
       IN  /\ all_messages_json' = extend(all_messages_json, page.value)
           /\ next_link' = page.nextLink
           /\ list_log' = Append(list_log, [url |-> list_url, bearer |-> bearer(token.v), ok |-> TRUE,
                                            nextLink |-> page.nextLink])
           /\ pc' = after_page(page.nextLink)
    /\ UNCHANGED <<probe, rules_vars, auth_vars, prompt, run, token, rules, max_messages, yes, inbox, messages, todo,
                   chunk_no, succeeded, failed, batch_results, batch_log,
                   action_counts, failures, exit, error>>

\* the errors of fetch_messages_page: `send().await?` and `json().await?`
\* (lines 464-467, 474), the bail! of line 471, the ok_or_else of line 476
ListErrors == {"transport", "Failed to fetch messages", "Unexpected response format"}

FetchPageFails_EndsPaging ==
    /\ \/ pc = "start" /\ rules # <<>>
       \/ pc = "paging"
    /\ list_log' = Append(list_log, [url |-> list_url, bearer |-> bearer(token.v), ok |-> FALSE,
                                     nextLink |-> None])
    /\ pc' = "evaluate"
    /\ UNCHANGED <<probe, rules_vars, auth_vars, prompt, run, token, rules, max_messages, yes, inbox, next_link,
                   all_messages_json, messages, todo, chunk_no, succeeded,
                   failed, batch_results, batch_log, action_counts, failures, exit, error>>

\* one list call that fails (send error, non-2xx, malformed page): `?` aborts the run
FetchPageFails ==
    /\ \/ pc = "start" /\ rules # <<>>
       \/ pc = "paging"
    /\ list_log' = Append(list_log, [url |-> list_url, bearer |-> bearer(token.v), ok |-> FALSE,
                                     nextLink |-> None])
    /\ \E message \in ListErrors : Fail(message)
    /\ UNCHANGED <<probe, rules_vars, auth_vars, prompt, run, token, rules, max_messages, yes, inbox, next_link,
                   all_messages_json, messages, todo, chunk_no, succeeded,
                   failed, batch_results, batch_log, action_counts, failures>>

Evaluate_KeepsGoing ==
    /\ pc = "evaluate"
    /\ IF all_messages_json = <<>>
       THEN /\ Return("Ok")
            /\ UNCHANGED messages
       ELSE /\ messages' = sort_by_received(find_matches(rules, all_messages_json))
            /\ pc' = "confirm"
            /\ UNCHANGED <<exit, error>>
    /\ UNCHANGED <<probe, rules_vars, auth_vars, prompt, run, token, list_log, rules, max_messages, yes, inbox, next_link,
                   all_messages_json, todo, chunk_no, succeeded, failed,
                   batch_results, batch_log, action_counts, failures>>

\* lines 91-205: nothing fetched, or parse, match and sort
Evaluate ==
    /\ pc = "evaluate"
    /\ IF all_messages_json = <<>>
       THEN /\ Return("Ok")
            /\ UNCHANGED messages
       ELSE LET matched == find_matches(rules, all_messages_json)
            IN  IF matched = <<>>
                THEN /\ Return("Ok")
                     /\ UNCHANGED messages
                ELSE /\ messages' = sort_by_received(matched)
                     /\ pc' = "confirm"
                     /\ UNCHANGED <<exit, error>>
    /\ UNCHANGED <<probe, rules_vars, auth_vars, prompt, run, token, list_log, rules, max_messages, yes, inbox, next_link,
                   all_messages_json, todo, chunk_no, succeeded, failed,
                   batch_results, batch_log, action_counts, failures>>

\* what Confirm::prompt returns: Ok(true), Ok(false) or Err
PromptAnswers == {Some(TRUE), Some(FALSE), None}

proceed_DefaultsToYes(flag, answer) == IF flag THEN TRUE ELSE unwrap_or(answer, TRUE)

\* lines 320-329: `answer` is the Result of Confirm::prompt, None when it is Err
proceed(flag, answer) == IF flag THEN TRUE ELSE unwrap_or(answer, FALSE)

\* lines 319-350: confirmation (the prompt's answer, FALSE when it fails), then grouping
Confirm ==
    /\ pc = "confirm"
    /\ \E answer \in PromptAnswers :
        /\ prompt' = IF yes THEN "none"
                     ELSE IF ~answer.some THEN "failed"
                     ELSE IF answer.v THEN "yes" ELSE "no"
        /\ IF ~proceed(yes, answer)
           THEN /\ Return("Ok")
                /\ UNCHANGED todo
           ELSE /\ todo' = nonempty_groups(messages)
                /\ pc' = "batch"
                /\ UNCHANGED <<exit, error>>
    /\ UNCHANGED <<probe, rules_vars, auth_vars, run, token, list_log, rules, max_messages, yes, inbox, next_link,
                   all_messages_json, messages, chunk_no, succeeded, failed,
                   batch_results, batch_log, action_counts, failures>>

\* process_messages_batch returns: its result is pushed, the next group starts
EndGroup(result) ==
    /\ batch_results' = Append(batch_results,
                               [result |-> result, operation |-> operation_label(Head(todo))])
    /\ todo' = Tail(todo)
    /\ chunk_no' = 1
    /\ succeeded' = 0
    /\ failed' = 0
    /\ pc' = IF Tail(todo) = <<>> THEN "collect" ELSE "batch"

Ok(stats) == [ok |-> TRUE, stats |-> stats]
Err == [ok |-> FALSE, stats |-> <<0, 0>>]

\* one iteration of the chunk loop (lines 505-584) whose batch call is answered
\* with a success status and a well-formed body
SendChunk ==
    /\ pc = "batch"
    /\ LET operation == Head(todo)
           all_chunks == chunks(group_of(messages, operation), BATCH_SIZE)
           chunk == all_chunks[chunk_no]
           requests == batch_requests(chunk, operation)
       IN  \E responses \in ResponseProfiles(Len(requests)) :
            LET s == succeeded + count_succeeded(responses)
                f == failed + count_failed(responses)
            IN  /\ batch_log' = Append(batch_log,
                        [operation |-> operation, chunk_no |-> chunk_no,
                         bearer |-> bearer(token.v),
                         requests |-> requests, reply |-> "success",
                         responses |-> responses,
                         succeeded |-> count_succeeded(responses),
                         failed |-> count_failed(responses)])
                /\ IF chunk_no = Len(all_chunks)
                   THEN EndGroup(Ok(<<s, f>>))
                   ELSE /\ chunk_no' = chunk_no + 1
                        /\ succeeded' = s
                        /\ failed' = f
                        /\ UNCHANGED <<todo, batch_results, pc>>
    /\ UNCHANGED <<probe, rules_vars, auth_vars, prompt, run, token, list_log, rules, max_messages, yes, inbox, next_link,
                   all_messages_json, messages, action_counts, failures, exit, error>>

\* one iteration of the chunk loop whose batch call fails as a whole: a send
\* error, a non-success status (bail!, line 564) or a body without "responses"
SendChunkFails ==
    /\ pc = "batch"
    /\ LET operation == Head(todo)
           all_chunks == chunks(group_of(messages, operation), BATCH_SIZE)
           chunk == all_chunks[chunk_no]
           requests == batch_requests(chunk, operation)
       IN  /\ batch_log' = Append(batch_log,
                    [operation |-> operation, chunk_no |-> chunk_no,
                         bearer |-> bearer(token.v),
                     requests |-> requests, reply |-> "non-success",
                     responses |-> <<>>,
                     succeeded |-> 0, failed |-> 0])
           /\ EndGroup(Err)
    /\ UNCHANGED <<probe, rules_vars, auth_vars, prompt, run, token, list_log, rules, max_messages, yes, inbox, next_link,
                   all_messages_json, messages, action_counts, failures, exit, error>>

\* *action_counts.entry(key).or_insert(0) += n
add_count(counts, key, n) ==
    [k \in DOMAIN counts \cup {key} |->
        (IF k \in DOMAIN counts THEN counts[k] ELSE 0) + (IF k = key THEN n ELSE 0)]

count_label(operation) ==
    CASE operation = "archive" -> "archived"
      [] operation = "delete" -> "deleted"
      [] operation = "mark read" -> "marked as read"
      [] OTHER -> operation

\* lines 395-417: fold the group results into the summary <<action_counts, failed>>
RECURSIVE collect_results(_, _, _)
collect_results(results, counts, fails) ==
    IF results = <<>> THEN <<counts, fails>>
    ELSE LET r == Head(results)
         IN  IF r.result.ok
             THEN collect_results(Tail(results),
                                  add_count(counts, count_label(r.operation), r.result.stats[1]),
                                  IF r.result.stats[2] > 0 THEN fails + r.result.stats[2] ELSE fails)
             ELSE collect_results(Tail(results), counts, fails + 1)

execute_result_ErrOnFailures(fails) == IF fails > 0 THEN "Err" ELSE "Ok"

\* line 448: what execute returns after the summary, `fails` being its
\* failure count
execute_result(fails) == "Ok"

\* main.rs, lines 23-38: main returns the Result of the command; the process
\* exits with 0 for Ok, 1 for Err and 101 after a panic
exit_code(result) ==
    CASE result = "Ok" -> 0
      [] result = "Err" -> 1
      [] result = "Panic" -> 101

\* lines 391-448: the summary
Collect ==
    /\ pc = "collect"
    /\ LET summary == collect_results(batch_results, <<>>, 0)
       IN  /\ action_counts' = summary[1]
           /\ failures' = summary[2]
           /\ Return(execute_result(summary[2]))
    /\ UNCHANGED <<probe, rules_vars, auth_vars, prompt, run, token, list_log, rules, max_messages, yes, inbox, next_link,
                   all_messages_json, messages, todo, chunk_no, succeeded,
                   failed, batch_results, batch_log>>

(***************************************************************************)
(* Specifications                                                          *)
(***************************************************************************)
(***************************************************************************)
(* rules.rs: Rules::validate, Rules::save, Rules::load                     *)
(***************************************************************************)
\* "Rule #{i + 1}: name cannot be empty" (line 187)
NameError(rule_no) == [problem |-> "name cannot be empty", rule_no |-> rule_no, name |-> <<>>]

\* "Rule '{name}': must specify at least one match pattern (sender_contains or
\* subject_contains)" (lines 192-195)
PatternError(name) ==
    [problem |-> "must specify at least one match pattern", rule_no |-> 0, name |-> name]

validate_rule_EitherEmpty(rule, rule_no) ==
    (IF trim(rule.name) = <<>> THEN <<NameError(rule_no)>> ELSE <<>>)
        \o (IF is_empty(rule.sender_contains) \/ is_empty(rule.subject_contains)
            THEN <<PatternError(rule.name)>> ELSE <<>>)

\* the body of the loop of validate (lines 185-199); rule_no is i + 1
validate_rule(rule, rule_no) ==
    (IF trim(rule.name) = <<>> THEN <<NameError(rule_no)>> ELSE <<>>)
        \o (IF is_empty(rule.sender_contains) /\ is_empty(rule.subject_contains)
            THEN <<PatternError(rule.name)>> ELSE <<>>)

\* Rules::validate (lines 181-203): the errors Vec
RECURSIVE validate_from(_, _)
validate_from(items, rule_no) ==
    IF rule_no > Len(items) THEN <<>>
    ELSE validate_rule(items[rule_no], rule_no) \o validate_from(items, rule_no + 1)

validate(items) == validate_from(items, 1)

\* the serde names of RuleAction (lines 117-126)
action_name(action) ==
    CASE action = "Archive" -> "archive"
      [] action = "Delete" -> "delete"
      [] action = "MarkRead" -> "mark_read"

action_of(name) ==
    CASE name = "archive" -> "Archive"
      [] name = "delete" -> "Delete"
      [] name = "mark_read" -> "MarkRead"

\* Serialize for Rule (lines 6-16): one mapping of the YAML sequence; a
\* pattern list for which PatternSet::is_empty holds is skipped
serialize_rule(rule) ==
    [name |-> rule.name,
     sender_contains |-> IF is_empty(rule.sender_contains) THEN None
                         ELSE Some(rule.sender_contains),
     subject_contains |-> IF is_empty(rule.subject_contains) THEN None
                          ELSE Some(rule.subject_contains),
     action |-> action_name(rule.action)]

\* Deserialize for Rule (lines 6-16): a missing pattern list is
\* PatternSet::default()
deserialize_rule(entry) ==
    Rule(entry.name, unwrap_or(entry.sender_contains, <<>>),
         unwrap_or(entry.subject_contains, <<>>), action_of(entry.action))

\* the rule file: its comment lines and the entries of its YAML document
NoFile == [state |-> "absent", header |-> FALSE, examples |-> FALSE, document |-> <<>>]
BlankFile == [state |-> "written", header |-> FALSE, examples |-> FALSE, document |-> <<>>]
RulesFile(examples, document) ==
    [state |-> "written", header |-> TRUE, examples |-> examples, document |-> document]

\* Rules::save (lines 264-312): the content written to the rule file
save(items) ==
    IF items = <<>> THEN RulesFile(TRUE, <<>>)
    ELSE RulesFile(FALSE, [i \in DOMAIN items |-> serialize_rule(items[i])])

\* `rules_str.trim().is_empty()` (line 242)
is_blank(file) == ~file.header /\ ~file.examples /\ file.document = <<>>

\* Rules::load (lines 231-261): the Rules returned and the rule file it leaves;
\* a document of comments only deserialises as an empty Vec<Rule>
load(file) ==
    IF file.state = "absent" \/ is_blank(file)
    THEN [items |-> <<>>, file |-> save(<<>>)]
    ELSE [items |-> [i \in DOMAIN file.document |-> deserialize_rule(file.document[i])],
          file |-> file]

\* the Rules values given to validate and save
StoredNames == {<<" ">>, <<"a">>}
StoredPatterns ==
    {<< <<>>, <<>> >>, << <<<<" ">>>>, <<>> >>, << <<<<" ">>>>, <<<<"b">>>> >>,
     << <<<<" ">>, <<"a">>>>, <<>> >>}
StoredRules ==
    {Rule(name, patterns[1], patterns[2], action) :
        name \in StoredNames, patterns \in StoredPatterns, action \in RuleAction}
StoredRuleSets == SeqsUpTo(StoredRules, MaxRules)

Caller(items) ==
    [pc |-> "new", items |-> items, errors |-> <<>>, saved |-> FALSE, loaded |-> <<>>]

InitStore ==
    /\ rules_file \in {NoFile, BlankFile}
    /\ \E items \in StoredRuleSets : store = Caller(items)
    /\ cli = <<>>

RulesIdle ==
    /\ rules_file = NoFile
    /\ store = [pc |-> "idle"]
    /\ cli = <<>>

CallValidate ==
    /\ store.pc = "new"
    /\ store' = [store EXCEPT !.pc = "validated", !.errors = validate(store.items)]
    /\ UNCHANGED <<probe, rules_file, cli, auth_vars, pipeline_vars>>

CallSave ==
    /\ store.pc = "validated"
    /\ rules_file' = save(store.items)
    /\ store' = [store EXCEPT !.pc = "saved", !.saved = TRUE]
    /\ UNCHANGED <<probe, cli, auth_vars, pipeline_vars>>

CallLoad ==
    /\ store.pc \in {"new", "saved"}
    /\ rules_file' = load(rules_file).file
    /\ store' = [store EXCEPT !.pc = "loaded", !.loaded = load(rules_file).items]
    /\ UNCHANGED <<probe, cli, auth_vars, pipeline_vars>>

(***************************************************************************)
(* commands/rules.rs: `rules add` (lines 190-231)                          *)
(***************************************************************************)
ArchiveArg == <<"A", "r", "c", "h", "i", "v", "e">>
DeleteArg == <<"d", "e", "l", "e", "t", "e">>
MarkReadArg == <<"m", "a", "r", "k", "r", "e", "a", "d">>
MoveArg == <<"m", "o", "v", "e">>

\* lines 201-209: `match action.to_lowercase().as_str()`
parse_action(action) ==
    LET action_lower == to_lowercase(action)
    IN  CASE action_lower = <<"a", "r", "c", "h", "i", "v", "e">> -> Some("Archive")
          [] action_lower = <<"d", "e", "l", "e", "t", "e">> -> Some("Delete")
          [] action_lower = <<"m", "a", "r", "k", "_", "r", "e", "a", "d">> -> Some("MarkRead")
          [] action_lower = <<"m", "a", "r", "k", "r", "e", "a", "d">> -> Some("MarkRead")
          [] OTHER -> None

\* lines 191-209: the error that ends the command before it loads the rules,
\* "" when the arguments pass
add_error(args) ==
    IF trim(args.name) = <<>> THEN "Rule name cannot be empty"
    ELSE IF args.sender = <<>> /\ args.subject = <<>>
         THEN "At least one sender or subject pattern must be provided"
    ELSE IF ~parse_action(args.action).some THEN "Invalid action"
    ELSE ""

\* lines 212-217
new_rule(args) == Rule(args.name, args.sender, args.subject, parse_action(args.action).v)

\* line 223: rules.items.push(new_rule)
push(items, rule) == Append(items, rule)

\* the arguments of the command: --name, --action, --sender, --subject
AddArgs ==
    [name : {<<" ">>, <<"a">>},
     action : {ArchiveArg, DeleteArg, MarkReadArg, MoveArg},
     sender : {<<>>, <<<<" ">>>>, <<<<"x">>>>},
     subject : {<<>>, <<<<"y">>>>}]

\* the arguments of the invocation that runs at the same time
OtherArgs == {[name |-> <<"b">>, action |-> DeleteArg, sender |-> <<<<"z">>>>, subject |-> <<>>]}

\* the rule files the command finds: none, files written by save, and a file
\* written by hand in the editor of `rules edit`
FoundFiles ==
    {NoFile,
     save(<<Rule(<<"k">>, <<<<"x">>>>, <<>>, "Archive")>>),
     save(<<Rule(<<"k">>, <<<<"x">>>>, <<>>, "Archive"),
            Rule(<<"j">>, <<>>, <<<<"y">>>>, "MarkRead")>>),
     RulesFile(FALSE, <<[name |-> <<"h">>, sender_contains |-> Some(<<<<" ">>>>),
                         subject_contains |-> Some(<<<<"y">>>>), action |-> "delete"]>>)}

AddProcs == {1, 2}

AddInvocation(args) ==
    [pc |-> "start", args |-> args, read |-> NoFile, rules |-> <<>>, result |-> ""]

InitAdd ==
    /\ rules_file \in FoundFiles
    /\ store = [pc |-> "idle"]
    /\ \E a \in AddArgs, b \in OtherArgs : cli = <<AddInvocation(a), AddInvocation(b)>>

\* lines 191-217: the arguments are checked and the rule is built
AddCheck(p) ==
    /\ cli[p].pc = "start"
    /\ cli' = [cli EXCEPT ![p] =
                 IF add_error(@.args) # ""
                 THEN [@ EXCEPT !.pc = "returned", !.result = add_error(cli[p].args)]
                 ELSE [@ EXCEPT !.pc = "loading"]]
    /\ UNCHANGED <<probe, rules_file, store, auth_vars, pipeline_vars>>

\* line 220, Rules::load up to the parse (rules.rs:238-255): the file is read;
\* a missing or blank file makes load save the default rules first
AddRead(p) ==
    /\ cli[p].pc = "loading"
    /\ cli' = [cli EXCEPT ![p] =
                 [@ EXCEPT !.read = rules_file,
                           !.rules = load(rules_file).items,
                           !.pc = IF rules_file.state = "absent" \/ is_blank(rules_file)
                                  THEN "default_create" ELSE "loaded"]]
    /\ UNCHANGED <<probe, rules_file, store, auth_vars, pipeline_vars>>

\* default_rules.save() inside load (rules.rs:243-245, 257-259), fs::write:
\* the file is created or truncated ...
AddDefaultCreate(p) ==
    /\ cli[p].pc = "default_create"
    /\ rules_file' = BlankFile
    /\ cli' = [cli EXCEPT ![p].pc = "default_write"]
    /\ UNCHANGED <<probe, store, auth_vars, pipeline_vars>>

\* ... and the default content is written
AddDefaultWrite(p) ==
    /\ cli[p].pc = "default_write"
    /\ rules_file' = save(<<>>)
    /\ cli' = [cli EXCEPT ![p].pc = "loaded"]
    /\ UNCHANGED <<probe, store, auth_vars, pipeline_vars>>

AddCreate_Rereads(p) ==
    /\ cli[p].pc = "loaded"
    /\ rules_file' = BlankFile
    /\ cli' = [cli EXCEPT ![p].rules = push(load(rules_file).items, new_rule(cli[p].args)),
                          ![p].pc = "writing"]
    /\ UNCHANGED <<probe, store, auth_vars, pipeline_vars>>

\* lines 223-226: the rule is pushed and save begins: fs::write (rules.rs:309)
\* creates or truncates the file ...
AddCreate(p) ==
    /\ cli[p].pc = "loaded"
    /\ rules_file' = BlankFile
    /\ cli' = [cli EXCEPT ![p].rules = push(@, new_rule(cli[p].args)),
                          ![p].pc = "writing"]
    /\ UNCHANGED <<probe, store, auth_vars, pipeline_vars>>

\* ... and writes the whole RuleSet; the command returns Ok(()) (line 230)
AddWrite(p) ==
    /\ cli[p].pc = "writing"
    /\ rules_file' = save(cli[p].rules)
    /\ cli' = [cli EXCEPT ![p].pc = "returned", ![p].result = "Ok"]
    /\ UNCHANGED <<probe, store, auth_vars, pipeline_vars>>

Init == InitClean /\ Authenticated(token.v) /\ probe = ProbeIdle /\ RulesIdle

Next ==
    \/ NoRules
    \/ FetchPage
    \/ FetchPageFails
    \/ Evaluate
    \/ Confirm
    \/ SendChunk
    \/ SendChunkFails
    \/ Collect

Spec == Init /\ [][Next]_vars

\* the whole of CleanCommand::execute, ensure_valid_token included, on a
\* small inbox
RunInboxes ==
    {MakeInbox(n, <<a, b>>) : n \in {0, 1, 2}, a \in MessageKinds, b \in MessageKinds}
        \cup {MakeInbox(MaxMsgs, <<a, a>>) : a \in MessageKinds}

InitRun ==
    /\ InitAuth
    /\ probe = ProbeIdle
    /\ RulesIdle
    /\ pc = "auth"
    /\ token = None
    /\ list_log = <<>>
    /\ prompt = "none"
    /\ run = 1
    /\ rules \in RuleSets
    /\ max_messages \in MaxMessagesArgs
    /\ yes \in BOOLEAN
    /\ inbox \in RunInboxes
    /\ next_link = None
    /\ all_messages_json = <<>>
    /\ messages = <<>>
    /\ todo = <<>>
    /\ chunk_no = 1
    /\ succeeded = 0
    /\ failed = 0
    /\ batch_results = <<>>
    /\ batch_log = <<>>
    /\ action_counts = <<>>
    /\ failures = 0
    /\ exit = "running"
    /\ error = ""

\* the effect of an accepted sub-request on the inbox folder: a message moved
\* to the archive (lines 512-518) or deleted (519-522) leaves it, a message
\* patched with isRead (523-529) stays
leaves_inbox(request) ==
    \/ request.method = "POST" /\ request.url.path = "/move"
    \/ request.method = "DELETE"

\* the inbox folder after the batch calls of `log`
inbox_after(folder, log) ==
    SelectSeq(folder, LAMBDA m :
        ~\E c \in DOMAIN log :
            /\ log[c].reply = "success"
            /\ \E r \in DOMAIN log[c].requests :
                  /\ log[c].requests[r].url.message_id = m.id
                  /\ is_2xx(log[c].responses[r])
                  /\ leaves_inbox(log[c].requests[r]))

\* every batch call of the run succeeded, and so did every sub-request
AllSucceeded ==
    /\ batch_log # <<>>
    /\ \A c \in DOMAIN batch_log :
          batch_log[c].reply = "success" /\ batch_log[c].failed = 0

\* the command is started again right after a run that completed with every
\* sub-request accepted: same rules and flags, no new mail
RerunAfterSuccess ==
    /\ run = 1
    /\ pc = "done"
    /\ exit = "Ok"
    /\ AllSucceeded
    /\ run' = 2
    /\ inbox' = inbox_after(inbox, batch_log)
    /\ procs' = [procs EXCEPT ![1] = IdleProc]
    /\ pc' = "auth"
    /\ token' = None
    /\ list_log' = <<>>
    /\ prompt' = "none"
    /\ next_link' = None
    /\ all_messages_json' = <<>>
    /\ messages' = <<>>
    /\ batch_results' = <<>>
    /\ batch_log' = <<>>
    /\ action_counts' = <<>>
    /\ failures' = 0
    /\ exit' = "running"
    /\ error' = ""
    /\ UNCHANGED <<probe, rules_vars, token_file, now, issued, rules, max_messages, yes, todo,
                   chunk_no, succeeded, failed>>

NextRun ==
    \/ pc = "auth" /\ procs[1].pc = "idle" /\ EnsureLoad(1)
    \/ RefreshReply(1)
    \/ SaveCreate(1)
    \/ SaveWrite(1)
    \/ AfterAuth
    \/ Next
    \/ RerunAfterSuccess

SpecRun == InitRun /\ [][NextRun]_vars

PipelineIdle ==
    /\ pc = "idle"
    /\ token = None
    /\ list_log = <<>>
    /\ prompt = "none"
    /\ run = 1
    /\ rules = <<>>
    /\ max_messages = None
    /\ yes = FALSE
    /\ inbox = <<>>
    /\ next_link = None
    /\ all_messages_json = <<>>
    /\ messages = <<>>
    /\ todo = <<>>
    /\ chunk_no = 1
    /\ succeeded = 0
    /\ failed = 0
    /\ batch_results = <<>>
    /\ batch_log = <<>>
    /\ action_counts = <<>>
    /\ failures = 0
    /\ exit = "running"
    /\ error = ""

InitMatch == InitProbe /\ PipelineIdle /\ AuthIdle /\ RulesIdle

NextMatch == CallMatches

SpecMatch == InitMatch /\ [][NextMatch]_vars

\* the three copies of the matching logic on the same rule and message
InlineFields == {<<>>, <<"A">>, <<"a", " ">>}

InitInline ==
    /\ \E sp \in ProbePatternSets, jp \in ProbePatternSets,
          sender \in InlineFields, subject \in InlineFields :
            probe = [pc |-> "call",
                     rule |-> Rule(<<"r">>, sp, jp, "Archive"),
                     sender |-> sender, subject |-> subject, result |-> FALSE]
    /\ PipelineIdle
    /\ AuthIdle
    /\ RulesIdle

\* the Message execute builds before it checks the rules (lines 119-126)
ProbeMessage ==
    [id |-> 1, subject |-> probe.subject, sender |-> probe.sender,
     received_date |-> UtcNow, matched_rule |-> None, action |-> None]

\* a rule without patterns, and one whose empty pattern every sender contains
NoPatternRule == Rule(<<"e">>, <<>>, <<>>, "Delete")
AnySenderRule == Rule(<<"c">>, << <<>> >>, <<>>, "MarkRead")

\* the rule lists in which the probed rule is checked
ProbeRuleLists(rule) ==
    {<<rule>>, <<NoPatternRule, rule>>, <<rule, AnySenderRule>>, <<AnySenderRule, rule>>}

\* one pass of the body of the rule loop over the probed rule
CallInline ==
    /\ probe.pc = "call"
    /\ probe' = [probe EXCEPT !.pc = "inline",
                              !.result = rule_matched(probe.rule, ProbeMessage)]
    /\ UNCHANGED <<rules_vars, auth_vars, pipeline_vars>>

CallMatchesRule ==
    /\ probe.pc = "call"
    /\ probe' = [probe EXCEPT !.pc = "helper",
                              !.result = matches_rule(probe.rule, probe.sender, probe.subject)]
    /\ UNCHANGED <<rules_vars, auth_vars, pipeline_vars>>

\* the whole rule loop over a rule list that holds the probed rule
CallCheckEachRule ==
    /\ probe.pc = "call"
    /\ \E items \in ProbeRuleLists(probe.rule) :
            probe' = [pc |-> "checked", rule |-> probe.rule, items |-> items,
                      sender |-> probe.sender, subject |-> probe.subject,
                      result |-> check_each_rule(items, ProbeMessage)]
    /\ UNCHANGED <<rules_vars, auth_vars, pipeline_vars>>

NextInline ==
    \/ CallMatches
    \/ CallInline
    \/ CallMatchesRule
    \/ CallCheckEachRule

SpecInline == InitInline /\ [][NextInline]_vars

\* the operations of Auth, one invocation after the other, while time passes
InitAuthOnly == InitAuth /\ PipelineIdle /\ probe = ProbeIdle /\ RulesIdle

NextAuth ==
    \/ EnsureLoad(1)
    \/ RefreshReply(1)
    \/ SaveCreate(1)
    \/ SaveWrite(1)
    \/ LoginStart(1)
    \/ DeviceReply(1)
    \/ PollReply(1)
    \/ UserInfoReply(1)
    \/ Logout(1)
    \/ Tick

SpecAuth == InitAuthOnly /\ [][NextAuth]_vars

\* two invocations that call ensure_valid_token once each, at the same time,
\* on a persisted credential
InitRace ==
    /\ InitAuth
    /\ token_file # Absent
    /\ PipelineIdle
    /\ probe = ProbeIdle
    /\ RulesIdle

NextRace ==
    \E p \in Procs :
        \/ procs[p].pc = "idle" /\ EnsureLoad(p)
        \/ RefreshReply(p)
        \/ SaveCreate(p)
        \/ SaveWrite(p)

SpecRace == InitRace /\ [][NextRace]_vars

\* one caller validating a Rules value, saving it and loading it back
InitRules == InitStore /\ probe = ProbeIdle /\ PipelineIdle /\ AuthIdle

NextRules ==
    \/ CallValidate
    \/ CallSave
    \/ CallLoad

SpecRules == InitRules /\ [][NextRules]_vars

\* a clean run during which the credential it uses expires
ExpiryInboxes ==
    {MakeInbox(n, <<a, a>>) :
        n \in {1, MaxMsgs}, a \in {k \in MessageKinds : k.subject = Some(<<"h", "i">>)}}

InitExpiry ==
    /\ InitRun
    /\ inbox \in ExpiryInboxes
    /\ Len(rules) <= 1
    /\ \A i \in DOMAIN rules : rules[i].action = "Archive" /\ rules[i].sender_contains # <<>>

\* the clock reaches expires_at of the token in use while the run is between
\* two of its network calls or waits for the confirmation
Expire ==
    /\ pc \in {"start", "paging", "confirm", "batch"}
    /\ token.some
    /\ now < token.v.expires_at
    /\ now' = token.v.expires_at
    /\ UNCHANGED <<probe, rules_vars, pipeline_vars, token_file, issued, procs>>

NextExpiry ==
    \/ pc = "auth" /\ procs[1].pc = "idle" /\ EnsureLoad(1)
    \/ RefreshReply(1)
    \/ SaveCreate(1)
    \/ SaveWrite(1)
    \/ AfterAuth
    \/ Next
    \/ Expire

SpecExpiry == InitExpiry /\ [][NextExpiry]_vars

\* two `rules add` invocations at the same time on one rule file
InitAddOnly == InitAdd /\ probe = ProbeIdle /\ PipelineIdle /\ AuthIdle

NextAdd ==
    \E p \in AddProcs :
        \/ AddCheck(p)
        \/ AddRead(p)
        \/ AddDefaultCreate(p)
        \/ AddDefaultWrite(p)
        \/ AddCreate(p)
        \/ AddWrite(p)

SpecAdd == InitAddOnly /\ [][NextAdd]_vars

(***************************************************************************)
(* Properties                                                              *)
(***************************************************************************)
\* pattern is a case-insensitive substring of field, character by character
CISubstring(pattern, field) ==
    \E off \in 0..(Len(field) - Len(pattern)) :
        \A j \in 1..Len(pattern) : lower_char(field[off + j]) = lower_char(pattern[j])

SomePattern(patterns, field) == \E i \in DOMAIN patterns : CISubstring(patterns[i], field)

\* index of the earliest-declared rule that Rule::matches accepts, 0 when none does
FirstMatching(items, message) ==
    LET hits == {i \in DOMAIN items : matches(items[i], message.sender, message.subject)}
    IN  IF hits = {} THEN 0 ELSE CHOOSE i \in hits : \A j \in hits : i <= j

MatchingRules(items, message) ==
    {i \in DOMAIN items : matches(items[i], message.sender, message.subject)}

\* the action a sub-request performs, read off its method, url and body
RequestAction(request) ==
    CASE request.method = "POST" /\ request.url.path = "/move"
            /\ request.body = "destinationId: archive" -> "Archive"
      [] request.method = "DELETE" /\ request.url.path = "" /\ request.body = "none" -> "Delete"
      [] request.method = "PATCH" /\ request.url.path = ""
            /\ request.body = "isRead: true" -> "MarkRead"
      [] OTHER -> "other"

\* every sub-request the provider has received, as <<call index, request index>>
SentRequests == {<<c, r>> \in (DOMAIN batch_log) \X (1..(BATCH_SIZE + 1)) :
                    r \in DOMAIN batch_log[c].requests}

Evaluated == pc \in {"confirm", "batch", "collect"} \/ (pc = "done" /\ exit = "Ok")

\* C1: every sub-request sent to the batch endpoint targets a message that was
\* fetched in this run and that some rule matches, and its operation is the
\* action of the earliest-declared rule matching that message; a fetched
\* message that matches no rule is the target of no sub-request.
C1_RequestsFollowFirstMatch ==
    /\ \A cr \in SentRequests :
        \E j \in DOMAIN all_messages_json :
            all_messages_json[j].id = batch_log[cr[1]].requests[cr[2]].url.message_id
    /\ \A cr \in SentRequests :
        LET request == batch_log[cr[1]].requests[cr[2]]
        IN  \A j \in DOMAIN all_messages_json :
                request.url.message_id = all_messages_json[j].id =>
                    LET first == FirstMatching(rules, parse_message(all_messages_json[j]))
                    IN  /\ first # 0
                        /\ RequestAction(request) = rules[first].action

\* a sub-request was sent for a message that two rules with different actions
\* match, while another fetched message matches no rule
C1_Witness ==
    /\ \E cr \in SentRequests, j \in DOMAIN all_messages_json :
        /\ all_messages_json[j].id = batch_log[cr[1]].requests[cr[2]].url.message_id
        /\ \E a, b \in MatchingRules(rules, parse_message(all_messages_json[j])) :
                rules[a].action # rules[b].action
    /\ \E j \in DOMAIN all_messages_json :
        MatchingRules(rules, parse_message(all_messages_json[j])) = {}

\* C2: once the fetched messages are evaluated, a message that some rule
\* matches is kept exactly once, carrying the name and the action of the
\* earliest-declared rule whose matches() holds; a message that no rule
\* matches is not kept.
C2_EarliestRuleWins ==
    Evaluated =>
        \A j \in DOMAIN all_messages_json :
            LET message == parse_message(all_messages_json[j])
                first == FirstMatching(rules, message)
                kept == {i \in DOMAIN messages : messages[i].id = message.id}
            IN  IF first = 0 THEN kept = {}
                ELSE /\ Cardinality(kept) = 1
                     /\ \A i \in kept :
                            /\ messages[i].matched_rule = Some(rules[first].name)
                            /\ messages[i].action = Some(rules[first].action)

\* evaluation kept a message that two differently named rules match, and
\* dropped another one
C2_Witness ==
    /\ Evaluated
    /\ \E i \in DOMAIN messages :
        \E a, b \in MatchingRules(rules, messages[i]) :
            a < b /\ rules[a].name # rules[b].name /\ rules[a].action # rules[b].action
    /\ Len(messages) < Len(all_messages_json)

\* C3: for a rule with patterns in both dimensions, matches() equals (some
\* sender pattern is a case-insensitive substring of the sender) and (some
\* subject pattern is a case-insensitive substring of the subject).
C3_BothDimensionsConjunction ==
    (/\ probe.pc = "returned"
     /\ probe.rule.sender_contains # <<>>
     /\ probe.rule.subject_contains # <<>>)
        => probe.result = (/\ SomePattern(probe.rule.sender_contains, probe.sender)
                           /\ SomePattern(probe.rule.subject_contains, probe.subject))

\* a match that needs the second sender pattern and the lowercasing of both sides
C3_Witness ==
    /\ probe.pc = "returned"
    /\ probe.result
    /\ Len(probe.rule.sender_contains) = 2
    /\ Len(probe.rule.subject_contains) = 2
    /\ ~CISubstring(probe.rule.sender_contains[1], probe.sender)
    /\ ~contains(probe.sender, probe.rule.sender_contains[2])
    /\ ~contains(probe.subject, probe.rule.subject_contains[1])
    /\ ~contains(probe.subject, probe.rule.subject_contains[2])

\* C4: for a rule with patterns in exactly one dimension, matches() equals the
\* disjunction over that dimension's patterns and gives the same result for
\* every value of the other message field.
C4_OneDimensionIndependent ==
    probe.pc = "returned" =>
        /\ (probe.rule.sender_contains # <<>> /\ probe.rule.subject_contains = <<>>)
            => /\ probe.result = SomePattern(probe.rule.sender_contains, probe.sender)
               /\ \A subject \in ProbeFields :
                    matches(probe.rule, probe.sender, subject) = probe.result
        /\ (probe.rule.sender_contains = <<>> /\ probe.rule.subject_contains # <<>>)
            => /\ probe.result = SomePattern(probe.rule.subject_contains, probe.subject)
               /\ \A sender \in ProbeFields :
                    matches(probe.rule, sender, probe.subject) = probe.result

\* a sender-only rule matched a message whose subject contains none of its patterns
C4_Witness ==
    /\ probe.pc = "returned"
    /\ probe.rule.sender_contains # <<>>
    /\ probe.rule.subject_contains = <<>>
    /\ probe.result
    /\ probe.sender # probe.subject
    /\ ~SomePattern(probe.rule.sender_contains, probe.subject)

\* C5: a rule whose two pattern sets are empty in the sense of
\* PatternSet::is_empty (no patterns, or only empty / whitespace-only
\* patterns) never matches a message.
C5_UnpopulatedNeverMatches ==
    (/\ probe.pc = "returned"
     /\ is_empty(probe.rule.sender_contains)
     /\ is_empty(probe.rule.subject_contains))
        => ~probe.result

CeilDiv(n, d) == (n + d - 1) \div d

\* the calls of the log that belong to one action group, in the order sent
CallsOf(operation) == SelectSeq(batch_log, LAMBDA call : call.operation = operation)

Sent(operation, k) ==
    \E c \in DOMAIN batch_log :
        batch_log[c].operation = operation /\ batch_log[c].chunk_no = k

RECURSIVE SumSucceeded(_)
SumSucceeded(calls) ==
    IF calls = <<>> THEN 0 ELSE Head(calls).succeeded + SumSucceeded(Tail(calls))

RECURSIVE SumFailed(_)
SumFailed(calls) ==
    IF calls = <<>> THEN 0 ELSE Head(calls).failed + SumFailed(Tail(calls))

SummaryCount(label) == IF label \in DOMAIN action_counts THEN action_counts[label] ELSE 0

\* C6: for the N messages of one action group, process() issues exactly
\* ceil(N/20) batch calls, and when no call of the group failed as a whole
\* the returned succeeded + failed equals N.
C6_CallsAndCountsPerGroup ==
    \A r \in DOMAIN batch_results :
        \A operation \in RuleAction :
            operation_label(operation) = batch_results[r].operation =>
                LET n == Len(group_of(messages, operation))
                    calls == CallsOf(operation)
                IN  /\ Len(calls) = CeilDiv(n, 20)
                    /\ (\A c \in DOMAIN calls : calls[c].reply = "success")
                        => /\ batch_results[r].result.ok
                           /\ batch_results[r].result.stats[1]
                                + batch_results[r].result.stats[2] = n

\* C7: process() partitions its input into consecutive chunks of at most 20:
\* the k-th batch call of a group carries, in input order, one sub-request for
\* each message of the k-th chunk and nothing else, between 1 and 20 of them,
\* and every input message lies in exactly one position of exactly one chunk.
C7_ChunksPartitionInput ==
    /\ \A c \in DOMAIN batch_log :
        LET call == batch_log[c]
            input == group_of(messages, call.operation)
            n == Len(call.requests)
            lo == (call.chunk_no - 1) * 20
        IN  /\ n \in 1..20
            /\ lo + n <= Len(input)
            /\ n = 20 \/ lo + n = Len(input)
            /\ \A i \in 1..n :
                /\ call.requests[i].url.message_id = input[lo + i].id
                /\ call.requests[i].id = i
            /\ \A d \in DOMAIN batch_log :
                (d < c /\ batch_log[d].operation = call.operation)
                    => batch_log[d].chunk_no < call.chunk_no
    /\ pc = "batch" =>
        LET input == group_of(messages, Head(todo))
            parts == chunks(input, BATCH_SIZE)
        IN  \A p \in DOMAIN input :
                {<<k, i>> \in (DOMAIN parts) \X (1..Len(input)) :
                    i \in DOMAIN parts[k] /\ parts[k][i].id = input[p].id}
                  = {<<((p - 1) \div 20) + 1, ((p - 1) % 20) + 1>>}

\* a group of more than 20 messages: its second call carries the rest
C7_Witness ==
    \E c \in DOMAIN batch_log :
        /\ batch_log[c].chunk_no = 2
        /\ Len(batch_log[c].requests) >= 1
        /\ Len(batch_log[c - 1].requests) = 20
        /\ Len(group_of(messages, batch_log[c].operation)) > 20

MutationDone == pc \in {"collect", "done"} /\ batch_log # <<>>

\* C8: when the batch call of one chunk gets a non-success response, the
\* remaining chunks of the same action group and the remaining action groups
\* are still sent.
C8_FailureDoesNotStopSending ==
    MutationDone =>
        \A c \in DOMAIN batch_log :
            batch_log[c].reply = "non-success" =>
                \A operation \in RuleAction :
                    \A k \in 1..CeilDiv(Len(group_of(messages, operation)), 20) :
                        Sent(operation, k)

\* C9: when one chunk of a group fails as a whole, the succeeded and failed
\* counts of the other chunks of that group still appear in the Summary.
C9_OtherChunksStillCounted ==
    (pc = "done" /\ batch_log # <<>>) =>
        \A c \in DOMAIN batch_log :
            batch_log[c].reply # "success" =>
                LET others == SelectSeq(batch_log,
                        LAMBDA call : call.operation = batch_log[c].operation
                                      /\ call.reply = "success")
                    label == count_label(operation_label(batch_log[c].operation))
                IN  /\ SummaryCount(label) = SumSucceeded(others)
                    /\ failures >= SumFailed(others)

\* C10: in a run that reached the mutation phase, the per-action succeeded
\* counts plus the failure count of the Summary add up to the number of
\* matched messages.
C10_EveryMessageAccounted ==
    (pc = "done" /\ batch_log # <<>>) =>
        SummaryCount("archived") + SummaryCount("deleted")
            + SummaryCount("marked as read") + failures = Len(messages)

(***************************************************************************)
(* The pages of the provider's cursor chain, from the page at `offset` on  *)
(***************************************************************************)
RECURSIVE ChainMessages(_)
ChainMessages(offset) ==
    LET page == provider_page(offset)
    IN  page.value \o (IF page.nextLink.some THEN ChainMessages(page.nextLink.v) ELSE <<>>)

RECURSIVE ChainLength(_)
ChainLength(offset) ==
    LET page == provider_page(offset)
    IN  1 + (IF page.nextLink.some THEN ChainLength(page.nextLink.v) ELSE 0)

\* some list call of the run has failed
ListFailed == \E i \in DOMAIN list_log : ~list_log[i].ok

\* the fetch loop of lines 71-89 has run to its end
Fetched == list_log # <<>> /\ ~ListFailed /\ pc # "paging"

\* C12: when a list-messages call fails, it is the last call of the run; the
\* run is over with an error, no message of the pages fetched before has been
\* evaluated (no match list, no summary) and the provider has received no
\* batch call.
C12_ListFailureAborts ==
    \A i \in DOMAIN list_log :
        ~list_log[i].ok =>
            /\ i = Len(list_log)
            /\ pc = "done"
            /\ exit = "Err"
            /\ messages = <<>>
            /\ todo = <<>>
            /\ action_counts = <<>>
            /\ batch_log = <<>>

\* the second page call fails after a first page whose messages match a rule
C12_Witness ==
    /\ Len(list_log) = 2
    /\ ~list_log[2].ok
    /\ find_matches(rules, all_messages_json) # <<>>
    /\ exit = "Err"

\* C13: once the fetch loop has ended without a failure, the fetched messages
\* are the concatenation, in order, of the pages of the cursor chain up to the
\* first page without a cursor, which is the whole inbox in provider order;
\* the first call carries the page size, each later call the cursor returned
\* by the call before, no page is requested twice, and the last page
\* requested is the one without a cursor.
C13_FetchIsWholeChain ==
    Fetched =>
        /\ all_messages_json = ChainMessages(0)
        /\ all_messages_json = inbox
        /\ Len(list_log) = ChainLength(0)
        /\ list_log[1].url.top = Some(per_page)
        /\ ~list_log[1].url.link.some
        /\ \A i \in 2..Len(list_log) :
              /\ ~list_log[i].url.top.some
              /\ list_log[i].url.link.some
              /\ list_log[i - 1].nextLink.some
              /\ list_log[i].url.link.v = list_log[i - 1].nextLink.v
        /\ \A i, j \in 2..Len(list_log) :
              i # j => list_log[i].url.link.v # list_log[j].url.link.v
        /\ ~list_log[Len(list_log)].nextLink.some

\* a chain of several pages has been fetched
C13_Witness ==
    /\ Fetched
    /\ Len(list_log) >= 2
    /\ Len(all_messages_json) = MaxMsgs

\* C11: when the ensure_valid_token call of a clean run has returned an error
\* (no credential could be loaded, or the refresh was rejected), the run
\* goes nowhere but to its end with an error, and the provider has received
\* no list-messages call and no batch call.
C11_AuthFailureAborts ==
    (procs[1].pc = "returned" /\ ~procs[1].result.ok) =>
        /\ pc \in {"auth", "done"}
        /\ pc = "done" => exit = "Err"
        /\ ~token.some
        /\ list_log = <<>>
        /\ batch_log = <<>>

\* a run with rules and a message to act on has ended because the refresh
\* of its expired credential was rejected
C11_Witness ==
    /\ procs[1].result.err = "Failed to refresh token"
    /\ pc = "done"
    /\ exit = "Err"
    /\ find_matches(rules, inbox) # <<>>

\* C20: a clean run that got a credential from ensure_valid_token and has no
\* rule ends successfully without a list-messages call and without a batch
\* call.
C20_NoRulesNoCalls ==
    (rules = <<>> /\ token.some) =>
        /\ pc \in {"start", "done"}
        /\ pc = "done" => exit = "Ok"
        /\ list_log = <<>>
        /\ batch_log = <<>>
        /\ all_messages_json = <<>>

\* a run without rules on a non-empty inbox has ended
C20_Witness ==
    /\ rules = <<>>
    /\ token.some
    /\ inbox # <<>>
    /\ pc = "done"
    /\ exit = "Ok"

(***************************************************************************)
(* Auth, one invocation at a time                                          *)
(***************************************************************************)
\* invocation 1 is in, or has finished, an ensure_valid_token call that
\* loaded a credential
EnsureLoaded ==
    /\ procs[1].op = "ensure_valid_token"
    /\ procs[1].pc # "idle"
    /\ procs[1].loaded # NoToken

\* the credential it loaded had reached its expiry when is_expired read the clock
ExpiredAtCheck == procs[1].checked_at >= procs[1].loaded.expires_at

\* C14: ensure_valid_token sends a refresh request exactly when the clock
\* reading is at or after expires_at of the loaded credential, the instant
\* expires_at itself included; a call that found the credential expired and
\* returned a token has received a token response before, and returns the
\* token of that response.
C14_ExpiredFromExpiryInstant ==
    EnsureLoaded =>
        /\ ExpiredAtCheck <=> procs[1].calls = <<"exchange_refresh_token">>
        /\ ~ExpiredAtCheck <=> procs[1].calls = <<>>
        /\ (ExpiredAtCheck /\ procs[1].pc = "returned" /\ procs[1].result.ok) =>
              /\ procs[1].response.some
              /\ procs[1].result.v.access_token = procs[1].response.v.access_token

\* a credential loaded at the very instant of its expiry, later than the
\* start, has been refreshed
C14_Witness ==
    /\ EnsureLoaded
    /\ procs[1].checked_at = procs[1].loaded.expires_at
    /\ procs[1].checked_at > 0
    /\ procs[1].pc = "returned"
    /\ procs[1].result.ok

\* C15: when ensure_valid_token returns after a refresh that delivered a
\* token, it returns Ok, the credential file holds exactly the credential
\* returned, that credential carries the access token of the response, and
\* it is not the credential that was loaded: the old access token is not
\* returned.
C15_RefreshedCredentialStoredAndReturned ==
    (EnsureLoaded /\ procs[1].pc = "returned" /\ procs[1].response.some) =>
        /\ procs[1].result.ok
        /\ token_file = Full(procs[1].result.v)
        /\ procs[1].result.v.access_token = procs[1].response.v.access_token
        /\ procs[1].result.v.refresh_token = procs[1].response.v.refresh_token.v
        /\ procs[1].result.v.access_token # procs[1].loaded.access_token

\* a refresh has replaced a credential that was itself obtained during the
\* behaviour
C15_Witness ==
    /\ EnsureLoaded
    /\ procs[1].pc = "returned"
    /\ procs[1].response.some
    /\ procs[1].loaded.access_token > 1
    /\ token_file.v.access_token = procs[1].loaded.access_token + 1

\* the lifetime a token response stands for
Lifetime(response) ==
    IF response.expires_in.some THEN response.expires_in.v ELSE 3600

\* invocation 1 has built a TokenCache from a token response
Built == procs[1].pc \in {"saving", "writing", "userinfo", "returned"} /\ procs[1].response.some

\* C17: the credential that login or a refresh builds, and then persists,
\* expires at the instant the token response was received plus the lifetime
\* the response declares, or plus 3600 seconds when it declares none; once
\* save_token_cache is over the file holds that credential, and a login
\* that has returned Ok has persisted a credential built from a token
\* response.
C17_ExpiryIsIssuancePlusLifetime ==
    /\ Built =>
          /\ procs[1].token_cache.expires_at =
                procs[1].received_at + Lifetime(procs[1].response.v)
          /\ procs[1].pc \in {"userinfo", "returned"} =>
                token_file = Full(procs[1].token_cache)
    /\ (procs[1].op = "login" /\ procs[1].pc = "returned" /\ procs[1].result.ok) =>
          /\ Built
          /\ token_file = Full(procs[1].token_cache)

\* a login whose token response declared no lifetime has returned
C17_Witness ==
    /\ procs[1].op = "login"
    /\ procs[1].pc = "returned"
    /\ procs[1].result.ok
    /\ ~procs[1].response.v.expires_in.some
    /\ token_file.v.expires_at = procs[1].received_at + 3600

\* invocation 1 takes the step that is the whole of `op`
Calls(op) == procs'[1] # procs[1] /\ procs'[1].op = op /\ CanStart(1)

\* C18: logout returns Ok from every state and leaves no credential file,
\* changing nothing when there was none; as long as there is no file only
\* the save of a login brings one back, and every ensure_valid_token that
\* starts without a file returns the "Not authenticated" error without a
\* network call.
C18_LogoutAlwaysSucceeds ==
    [][ /\ Calls("logout") =>
              /\ procs'[1].pc = "returned"
              /\ procs'[1].result.ok
              /\ token_file' = Absent
              /\ token_file = Absent => UNCHANGED <<token_file, now, issued>>
        /\ (token_file = Absent /\ token_file' # Absent) =>
              /\ procs[1].op = "login"
              /\ procs[1].pc = "saving"
        /\ (token_file = Absent /\ Calls("ensure_valid_token")) =>
              /\ procs'[1].pc = "returned"
              /\ ~procs'[1].result.ok
              /\ procs'[1].result.err = "Not authenticated"
              /\ procs'[1].calls = <<>>
              /\ token_file' = Absent
      ]_vars

\* time has passed on a persisted credential, the file is gone, and
\* ensure_valid_token has reported that there is no credential
C18_Witness ==
    /\ now > 0
    /\ token_file = Absent
    /\ procs[1].op = "ensure_valid_token"
    /\ procs[1].pc = "returned"
    /\ procs[1].result.err = "Not authenticated"

\* C19: ensure_valid_token on a loaded credential that is not yet at its
\* expiry returns that very credential at once, without a network call and
\* with the file still holding it; whenever the file differs from the
\* credential the call loaded, the credential was expired at the check and a
\* refresh has delivered a token.
C19_UnexpiredReturnedUntouched ==
    EnsureLoaded =>
        /\ ~ExpiredAtCheck =>
              /\ procs[1].pc = "returned"
              /\ procs[1].result = AuthOk(procs[1].loaded)
              /\ procs[1].calls = <<>>
              /\ ~procs[1].response.some
              /\ token_file = Full(procs[1].loaded)
        /\ token_file # Full(procs[1].loaded) =>
              /\ ExpiredAtCheck
              /\ procs[1].response.some

\* a refreshed credential, one second before its expiry, has been returned
\* from the file
C19_Witness ==
    /\ EnsureLoaded
    /\ procs[1].loaded.access_token > 1
    /\ procs[1].checked_at = procs[1].loaded.expires_at - 1
    /\ procs[1].pc = "returned"
    /\ procs[1].result.ok

(***************************************************************************)
(* Auth, two invocations at once                                           *)
(***************************************************************************)
\* C16: an ensure_valid_token call that loads the credential file while
\* another invocation is saving its refreshed credential reads a complete
\* credential, the old one or the new one, and so does not return the
\* "Not authenticated" error.
C16_LoadSeesOldOrNew ==
    \A p \in Procs :
        procs[p].pc # "idle" =>
            /\ procs[p].loaded # NoToken
            /\ procs[p].result.err # "Not authenticated"

(***************************************************************************)
(* The end of a run without matches, and the confirmation                  *)
(***************************************************************************)
\* no fetched message is matched by a rule
NoMatch ==
    \A j \in DOMAIN all_messages_json :
        MatchingRules(rules, parse_message(all_messages_json[j])) = {}

\* C21: when the fetch loop has ended and no fetched message matches a rule
\* (the listing may be empty), the evaluation ends the run with Ok: nothing
\* is kept, the confirmation prompt is not shown, the provider receives no
\* batch call and the summary stays empty.
C21_NoMatchEndsEmpty ==
    (Fetched /\ pc # "evaluate" /\ NoMatch) =>
        /\ pc = "done"
        /\ exit = "Ok"
        /\ messages = <<>>
        /\ prompt = "none"
        /\ batch_log = <<>>
        /\ batch_results = <<>>
        /\ action_counts = <<>>
        /\ failures = 0

\* a run with rules and a full inbox of which no message matches has ended
\* without --yes
C21_Witness ==
    /\ Fetched
    /\ NoMatch
    /\ Len(all_messages_json) = MaxMsgs
    /\ ~yes
    /\ pc = "done"

\* C22: the provider receives a batch call only when --yes was given or the
\* prompt was answered with yes; without --yes, a prompt answered with no or
\* ended by an error ends the run with Ok and without any batch call; with
\* --yes the prompt is never shown and a run with matches goes on to the
\* batch calls.
C22_BatchOnlyAfterConfirmation ==
    /\ batch_log # <<>> => (yes \/ prompt = "yes")
    /\ pc \in {"batch", "collect"} => (yes \/ prompt = "yes")
    /\ prompt \in {"no", "failed"} =>
          /\ ~yes
          /\ pc = "done"
          /\ exit = "Ok"
          /\ todo = <<>>
          /\ batch_log = <<>>
          /\ action_counts = <<>>
    /\ yes => prompt = "none"
    /\ (yes /\ messages # <<>> /\ pc \in {"collect", "done"}) => batch_log # <<>>

\* the prompt of a run with matches ended with an error and the run is over
C22_Witness ==
    /\ prompt = "failed"
    /\ messages # <<>>
    /\ pc = "done"

(***************************************************************************)
(* Item-level failures                                                     *)
(***************************************************************************)
\* the sub-responses of batch call `c` whose status is present and in 200..299
Accepted(c) ==
    {i \in DOMAIN batch_log[c].responses :
        /\ batch_log[c].responses[i].some
        /\ batch_log[c].responses[i].v \in 200..299}

\* the action groups that come after `operation` and are not empty
LaterGroups(operation) ==
    {later \in RuleAction :
        /\ group_of(messages, later) # <<>>
        /\ \E i, j \in DOMAIN BatchOperation :
              i < j /\ BatchOperation[i] = operation /\ BatchOperation[j] = later}

\* C23: for every batch call that got a successful reply, each sub-response
\* is counted once: into succeeded when its status is in 200..299, into
\* failed otherwise (a missing status included); and once the mutation
\* phase is over, a call with failed sub-responses was followed by the next
\* chunk of its group, if there is one, and by the first chunk of every
\* later non-empty group.
C23_ItemsCountedIndependently ==
    \A c \in DOMAIN batch_log :
        batch_log[c].reply = "success" =>
            /\ DOMAIN batch_log[c].responses = DOMAIN batch_log[c].requests
            /\ batch_log[c].succeeded = Cardinality(Accepted(c))
            /\ batch_log[c].failed = Len(batch_log[c].requests) - Cardinality(Accepted(c))
            /\ (batch_log[c].failed > 0 /\ pc \in {"collect", "done"}) =>
                  /\ batch_log[c].chunk_no
                        < CeilDiv(Len(group_of(messages, batch_log[c].operation)), 20)
                        => /\ c < Len(batch_log)
                           /\ batch_log[c + 1].operation = batch_log[c].operation
                           /\ batch_log[c + 1].chunk_no = batch_log[c].chunk_no + 1
                  /\ \A later \in LaterGroups(batch_log[c].operation) : Sent(later, 1)

\* a call with failed sub-responses was followed by a later group
GroupAfterItemFailure ==
    /\ pc = "done"
    /\ \E c \in DOMAIN batch_log :
          /\ batch_log[c].failed > 0
          /\ LaterGroups(batch_log[c].operation) # {}

\* the first chunk of a group had a sub-response with status 300 and the
\* second chunk was sent after it
C23_Witness ==
    /\ pc = "done"
    /\ \E c \in DOMAIN batch_log :
          /\ batch_log[c].reply = "success"
          /\ batch_log[c].responses[1] = Some(300)
          /\ batch_log[c].failed = 1
          /\ c < Len(batch_log)
          /\ batch_log[c + 1].chunk_no = 2

\* some batch call failed as a whole, or some sub-response was a failure
BatchFailure ==
    \E c \in DOMAIN batch_log : batch_log[c].reply # "success" \/ batch_log[c].failed > 0

\* C24: a clean run that reached the mutation phase never ends before its
\* summary, and ends with Ok, exit status 0, whatever batch calls or
\* sub-requests failed; the failure count of the summary is positive exactly
\* when some batch call or sub-request failed.
C24_BatchFailuresKeepExitOk ==
    batch_log # <<>> =>
        /\ pc \in {"batch", "collect", "done"}
        /\ pc # "done" => exit = "running"
        /\ pc = "done" =>
              /\ exit = "Ok"
              /\ exit_code(exit) = 0
              /\ failures > 0 <=> BatchFailure

\* a run in which one batch call failed as a whole and another one had a
\* failed sub-response has ended
C24_Witness ==
    /\ pc = "done"
    /\ \E c \in DOMAIN batch_log : batch_log[c].reply # "success"
    /\ \E c \in DOMAIN batch_log : batch_log[c].failed > 0

(***************************************************************************)
(* Running the command again                                               *)
(***************************************************************************)
\* C25: the run that follows a completed run in which every sub-request
\* succeeded, on the inbox that run left behind and with the same rules,
\* matches no message: it keeps nothing, asks nothing and sends no batch
\* call.
C25_RerunFindsNothing ==
    run = 2 =>
        /\ pc \in {"auth", "start", "paging", "evaluate", "done"}
        /\ messages = <<>>
        /\ prompt = "none"
        /\ batch_log = <<>>

\* C26: with --max-messages M a clean run fetches at most M messages, keeps
\* at most M of them and sends sub-requests for at most M.
C26_AtMostMaxMessages ==
    max_messages.some =>
        /\ Len(all_messages_json) <= max_messages.v
        /\ Len(messages) <= max_messages.v
        /\ Cardinality(SentRequests) <= max_messages.v

(***************************************************************************)
(* The rule store                                                          *)
(***************************************************************************)
\* s has a character that is not white space
NonBlank(s) == \E i \in DOMAIN s : ~is_whitespace(s[i])

HasNonBlankPattern(rule) ==
    \/ \E i \in DOMAIN rule.sender_contains : NonBlank(rule.sender_contains[i])
    \/ \E i \in DOMAIN rule.subject_contains : NonBlank(rule.subject_contains[i])

\* the violated conditions of items: <<rule number, 1>> for a blank name,
\* <<rule number, 2>> for no usable pattern
Violations(items) ==
    {<<i, 1>> : i \in {k \in DOMAIN items : ~NonBlank(items[k].name)}}
        \cup {<<i, 2>> : i \in {k \in DOMAIN items : ~HasNonBlankPattern(items[k])}}

Before(v, w) == v[1] < w[1] \/ (v[1] = w[1] /\ v[2] < w[2])

\* the problem reported for violation v
ProblemOf(items, v) ==
    IF v[2] = 1 THEN NameError(v[1]) ELSE PatternError(items[v[1]].name)

\* validate has returned
Validated == store.pc \in {"validated", "saved"} \/ (store.pc = "loaded" /\ store.saved)

\* C27: validate returns no problem exactly when every rule has a non-blank
\* name and a non-blank pattern in sender_contains or subject_contains;
\* otherwise it returns one problem per violated condition, ordered by rule
\* and, within a rule, name before patterns.
C27_ValidateReportsEachViolation ==
    Validated =>
        LET items == store.items
            errors == store.errors
            violations == Violations(items)
        IN /\ errors = <<>> <=>
                \A i \in DOMAIN items : NonBlank(items[i].name) /\ HasNonBlankPattern(items[i])
           /\ Len(errors) = Cardinality(violations)
           /\ \A v \in violations :
                errors[Cardinality({w \in violations : Before(w, v)}) + 1]
                    = ProblemOf(items, v)

\* a rule with both conditions violated followed by a rule with one
C27_Witness ==
    /\ store.pc = "validated"
    /\ Len(store.items) >= 2
    /\ {<<1, 1>>, <<1, 2>>, <<2, 2>>} \subseteq Violations(store.items)
    /\ <<2, 1>> \notin Violations(store.items)
    /\ Len(store.errors) = 3

\* C29: a Rules value that was saved and loaded back is the value that was
\* saved: the same rules in the same order with the same names, pattern
\* lists and actions; in particular an empty one comes back with zero rules.
C29_SaveLoadRoundTrip ==
    (store.pc = "loaded" /\ store.saved) => store.loaded = store.items

(***************************************************************************)
(* The order of the network calls                                          *)
(***************************************************************************)
\* the place of an action group in the order of the claim
Rank(operation) ==
    CASE operation = "Archive" -> 1
      [] operation = "Delete" -> 2
      [] operation = "MarkRead" -> 3

\* the network calls of the run so far
NetworkCalls == Len(procs[1].calls) + Len(list_log) + Len(batch_log)

\* the token refresh is over before the first list call
RefreshFirst ==
    (list_log # <<>> \/ batch_log # <<>>) =>
        procs[1].pc = "returned" /\ procs[1].result.ok

\* the first list call asks for the first page, each later one follows the
\* cursor that the reply before it carried
PagesInCursorOrder ==
    \A i \in DOMAIN list_log :
        IF i = 1 THEN list_log[i].url = [top |-> Some(per_page), link |-> None]
        ELSE /\ list_log[i - 1].ok
             /\ list_log[i - 1].nextLink.some
             /\ list_log[i].url = [top |-> None, link |-> list_log[i - 1].nextLink]

\* the last page, the one without a cursor, was received before any batch call
BatchAfterLastPage ==
    batch_log # <<>> =>
        /\ list_log # <<>>
        /\ list_log[Len(list_log)].ok
        /\ ~list_log[Len(list_log)].nextLink.some

\* batch calls go group by group, and chunk by chunk within a group; chunk k
\* carries the k-th run of BATCH_SIZE messages of the group, in their order
ChunksInOrder ==
    /\ \A c, d \in DOMAIN batch_log :
         c < d =>
            \/ Rank(batch_log[c].operation) < Rank(batch_log[d].operation)
            \/ /\ batch_log[c].operation = batch_log[d].operation
               /\ batch_log[c].chunk_no < batch_log[d].chunk_no
    /\ \A c \in DOMAIN batch_log :
         LET group == group_of(messages, batch_log[c].operation)
             base == (batch_log[c].chunk_no - 1) * BATCH_SIZE
         IN  \A r \in DOMAIN batch_log[c].requests :
                /\ base + r <= Len(group)
                /\ batch_log[c].requests[r].url.message_id = group[base + r].id

CallOrder == RefreshFirst /\ PagesInCursorOrder /\ BatchAfterLastPage /\ ChunksInOrder

\* C28: the network calls of one run come one at a time and in a fixed order:
\* the token refresh, if there is one, is over before the first list call;
\* the list calls follow the cursor chain; every batch call comes after the
\* page without a cursor, Archive chunks before Delete chunks before MarkRead
\* chunks, the chunks of a group in input order.
C28_CallsInFixedOrder ==
    [][ /\ CallOrder'
        /\ run' = run => NetworkCalls' \in {NetworkCalls, NetworkCalls + 1} ]_vars

\* a run that refreshed the token, listed several pages and sent two chunks
C28_Witness ==
    /\ procs[1].calls # <<>>
    /\ Len(list_log) >= 2
    /\ Len(batch_log) >= 2
    /\ batch_log[2].chunk_no = 2

(***************************************************************************)
(* Failed logins and refreshes                                             *)
(***************************************************************************)
\* the invocation is a login or an ensure_valid_token that is waiting for the
\* provider or has returned an error
WaitingOrFailed(proc) ==
    /\ proc.op \in {"login", "ensure_valid_token"}
    /\ \/ proc.pc \in {"device", "polling", "refreshing"}
       \/ proc.pc = "returned" /\ ~proc.result.ok

\* C30: no step of a login or of an ensure_valid_token that ends with the
\* provider's refusal or a transport error touches the credential file: from
\* the start of the call, through the waits for the provider, to the error
\* return the file is neither written nor deleted.
C30_FailureLeavesCredential ==
    [][ WaitingOrFailed(procs'[1]) => token_file' = token_file ]_vars

\* a refresh that the provider rejected, with the expired credential still
\* in the file
C30_Witness ==
    /\ procs[1].op = "ensure_valid_token"
    /\ procs[1].pc = "returned"
    /\ procs[1].result.err = "Failed to refresh token"
    /\ token_file = Full(procs[1].loaded)

(***************************************************************************)
(* Error kinds                                                             *)
(***************************************************************************)
\* the kind an error message stands for
ErrorKind(message) ==
    CASE message \in {"Not authenticated", "You are not authenticated"} -> "NotAuthenticated"
      [] message = "Failed to refresh token" -> "RefreshFailure"
      [] message \in {"Device code request failed", "Token exchange failed"} -> "AuthFlowFailure"
      [] OTHER -> "other"

\* the clean run has ended at its authentication step
AuthFailed ==
    /\ pc = "done"
    /\ exit = "Err"
    /\ procs[1].op = "ensure_valid_token"
    /\ procs[1].pc = "returned"
    /\ ~procs[1].result.ok

\* C31: an error of kind NotAuthenticated, from ensure_valid_token or from
\* the clean run, is reported only when there is no credential file; a clean
\* run whose refresh request was rejected reports an error of kind
\* RefreshFailure.
C31_ErrorKindsDistinct ==
    /\ (procs[1].pc = "returned" /\ ~procs[1].result.ok
            /\ ErrorKind(procs[1].result.err) = "NotAuthenticated") => token_file = Absent
    /\ AuthFailed =>
        /\ ErrorKind(error) = "NotAuthenticated" => token_file = Absent
        /\ procs[1].calls = <<"exchange_refresh_token">> => ErrorKind(error) = "RefreshFailure"

(***************************************************************************)
(* Rules without patterns in a clean run                                   *)
(***************************************************************************)
\* the rule has no pattern in either dimension
NoPatterns(rule) == rule.sender_contains = <<>> /\ rule.subject_contains = <<>>

\* the rule has a pattern, and in each dimension where it has some, one of
\* them occurs in the message
Applies(rule, message) ==
    /\ ~NoPatterns(rule)
    /\ rule.sender_contains # <<>> => SomePattern(rule.sender_contains, message.sender)
    /\ rule.subject_contains # <<>> => SomePattern(rule.subject_contains, message.subject)

\* C32: a rule without patterns does not stop a clean run and is not
\* validated away: the run fails only when a list call fails, validate is
\* never called, no message is kept for a rule without patterns, and every
\* fetched message to which some rule with patterns applies is kept for the
\* earliest such rule, wherever the rules without patterns stand; the kept
\* messages are decided in the evaluation step and in no other.
C32_InvalidRuleIsSkipped ==
    [][ /\ store' = [pc |-> "idle"]
        /\ exit' = "Err" => ListFailed'
        /\ pc = "evaluate" =>
            /\ \A i \in DOMAIN messages' :
                 \A r \in DOMAIN rules :
                    rules[r].name = messages'[i].matched_rule.v => ~NoPatterns(rules[r])
            /\ \A j \in DOMAIN all_messages_json :
                 LET m == parse_message(all_messages_json[j])
                     hits == {r \in DOMAIN rules : Applies(rules[r], m)}
                 IN  hits # {} =>
                       \E i \in DOMAIN messages' :
                          /\ messages'[i].id = m.id
                          /\ messages'[i].matched_rule =
                                Some(rules[CHOOSE r \in hits : \A q \in hits : r <= q].name)
        /\ pc # "evaluate" => messages' = messages ]_vars

\* a rule without patterns stands first and a message was kept for the rule
\* declared after it
C32_Witness ==
    /\ Evaluated
    /\ Len(rules) >= 2
    /\ NoPatterns(rules[1])
    /\ \E i \in DOMAIN messages : messages[i].matched_rule = Some(rules[2].name)

(***************************************************************************)
(* The end of the fetch loop                                               *)
(***************************************************************************)
\* the pages of the cursor chain that have not been requested yet
PagesLeft == ChainLength(0) - Len(list_log)

InFetchLoop == pc \in {"start", "paging"}

\* C33: the fetch loop ends after one list call per page of the cursor chain:
\* every list call takes one page off the pages left, the loop goes round
\* again exactly when the call succeeded and pages are left, and it is never
\* inside an iteration with no page left.
C33_FetchLoopTerminates ==
    [][ /\ list_log' # list_log =>
            /\ InFetchLoop
            /\ PagesLeft > 0
            /\ PagesLeft' = PagesLeft - 1
            /\ InFetchLoop' <=> (list_log'[Len(list_log')].ok /\ PagesLeft' > 0)
        /\ pc' = "paging" => PagesLeft' > 0 ]_vars

\* the loop has ended after as many calls as the chain has pages, more than one
C33_Witness ==
    /\ pc = "evaluate"
    /\ ~ListFailed
    /\ PagesLeft = 0
    /\ Len(list_log) >= 2

(***************************************************************************)
(* `rules add`                                                             *)
(***************************************************************************)
\* the names of the rules of a rule file, in order
Names(file) == [i \in DOMAIN file.document |-> file.document[i].name]

Added(p) == cli[p].pc = "returned" /\ cli[p].result = "Ok"

\* C34: nothing orders the load and the save of two `rules add` invocations:
\* when both have returned Ok the rule file is the whole RuleSet of one of
\* them, that is the rules that one read followed by its own rule, so the
\* rule of the other is in the file only if it had been written before that
\* read.
C34_LastWriterWins ==
    (\A p \in AddProcs : Added(p)) =>
        \E q \in AddProcs :
            Names(rules_file) = Names(cli[q].read) \o <<cli[q].args.name>>

\* both invocations returned Ok and the file holds the rule of only one
C34_Witness ==
    /\ \A p \in AddProcs : Added(p)
    /\ \E p, q \in AddProcs :
         /\ \E i \in DOMAIN rules_file.document :
                rules_file.document[i].name = cli[p].args.name
         /\ \A i \in DOMAIN rules_file.document :
                rules_file.document[i].name # cli[q].args.name

\* the file entry of the rule that the arguments describe
EntryOf(args) ==
    [name |-> args.name,
     sender_contains |-> IF args.sender = <<>> THEN None ELSE Some(args.sender),
     subject_contains |-> IF args.subject = <<>> THEN None ELSE Some(args.subject),
     action |-> action_name(parse_action(args.action).v)]

\* C35: the write that ends an accepted `rules add` leaves in the file the
\* entries the command had read, unchanged and in their order, followed by
\* one entry with the name and the action of the new rule; a command that
\* returns an error does so before it reads the file and leaves the file as
\* it is.
C35_AddAppends ==
    [][ \A p \in AddProcs :
          /\ (cli[p].pc = "writing" /\ cli'[p].pc = "returned") =>
                /\ Len(rules_file'.document) = Len(cli[p].read.document) + 1
                /\ SubSeq(rules_file'.document, 1, Len(cli[p].read.document))
                      = cli[p].read.document
                /\ rules_file'.document[Len(rules_file'.document)].name = cli[p].args.name
                /\ rules_file'.document[Len(rules_file'.document)].action
                      = EntryOf(cli[p].args).action
          /\ (cli[p].pc # "returned" /\ cli'[p].pc = "returned" /\ cli'[p].result # "Ok") =>
                /\ cli[p].pc = "start"
                /\ rules_file' = rules_file ]_vars

\* C36: the rule of every `rules add` that returned Ok passes validate.
C36_AddedRulePassesValidate ==
    \A p \in DOMAIN cli :
        Added(p) => validate(<<new_rule(cli[p].args)>>) = <<>>

(***************************************************************************)
(* The token of a clean run                                                *)
(***************************************************************************)
\* C37: a clean run calls ensure_valid_token once, before its first list
\* call: the invocation changes only while the run is at its authentication
\* step and has sent no call, the provider issues no token afterwards, the
\* token the run holds is the one that call returned and never changes, and
\* every list call and every batch call carries its access token, also the
\* calls sent when the clock has reached its expires_at.
C37_OneTokenPerRun ==
    [][ /\ procs' # procs =>
            pc = "auth" /\ list_log = <<>> /\ batch_log = <<>>
        /\ issued' # issued => pc = "auth"
        /\ procs[1].pc # "idle" => procs'[1].op = "ensure_valid_token"
        /\ token.some => token' = token
        /\ token'.some =>
            /\ token'.v = procs'[1].result.v
            /\ procs'[1].result.ok
        /\ \A i \in DOMAIN list_log' : list_log'[i].bearer = token'.v.access_token
        /\ \A c \in DOMAIN batch_log' : batch_log'[c].bearer = token'.v.access_token
        /\ token_file' # token_file => pc = "auth" ]_vars

\* a run that refreshed its token, saw it expire before the second list call
\* and went on to send a batch call
C37_Witness ==
    /\ procs[1].calls # <<>>
    /\ Len(list_log) >= 2
    /\ batch_log # <<>>
    /\ now >= token.v.expires_at
    /\ issued = 2

(***************************************************************************)
(* A token response without a refresh token                                *)
(***************************************************************************)
\* C38: when the token response of the provider carries no refresh token,
\* login and ensure_valid_token end with an error result (the token
\* exchange failure of login, the refresh failure of ensure_valid_token)
\* and do not crash.
C38_MissingRefreshTokenIsAnError ==
    \A p \in Procs :
        (procs[p].response.some /\ ~procs[p].response.v.refresh_token.some) =>
            /\ procs[p].pc = "returned"
            /\ ~procs[p].result.ok
            /\ procs[p].result.err =
                 IF procs[p].op = "login"
                 THEN "Token exchange failed"
                 ELSE "Failed to refresh token"

(***************************************************************************)
(* The copies of the matching logic                                        *)
(***************************************************************************)
\* the first rule of `items` that Rule::matches accepts, as the pair the
\* pipeline records for it
FirstByMatches(items, sender, subject) ==
    LET hits == {i \in DOMAIN items : matches(items[i], sender, subject)}
    IN  IF hits = {} THEN <<None, None>>
        ELSE LET first == CHOOSE i \in hits : \A j \in hits : i <= j
             IN  <<Some(items[first].name), Some(items[first].action)>>

\* C39: the rule check inlined in the clean pipeline and the test helper
\* matches_rule return what Rule::matches returns for the same rule, sender
\* and subject, and the rule the pipeline's loop records for a message is
\* the first rule of the list that Rule::matches accepts.
C39_CopiesAgreeWithMatches ==
    /\ probe.pc \in {"inline", "helper"} =>
            probe.result = matches(probe.rule, probe.sender, probe.subject)
    /\ probe.pc = "checked" =>
            <<probe.result.matched_rule, probe.result.action>> =
                FirstByMatches(probe.items, probe.sender, probe.subject)

\* the loop passed over a rule without patterns and recorded the probed
\* rule, which has patterns in both dimensions
C39_Witness ==
    /\ probe.pc = "checked"
    /\ probe.items = <<NoPatternRule, probe.rule>>
    /\ probe.rule.sender_contains # <<>>
    /\ probe.rule.subject_contains # <<>>
    /\ probe.result.matched_rule = Some(probe.rule.name)
    /\ matches_rule(probe.rule, probe.sender, probe.subject)

====
